---- MODULE Spec2Model ----
(***************************************************************************)
(* A model of the semantic metrics engine of src/src/semanticEngine.ts:    *)
(* the filter matcher, the grain-aware filter applier, the recursive       *)
(* metric evaluator with its cache, evaluateMetrics and runQuery.          *)
(*                                                                         *)
(* JavaScript values are records of one shape, so that values of different *)
(* JavaScript types can be compared and collected in sets:                 *)
(*   t : the type tag ("num", "nan", "str", "null", "undef", "fn", "range")*)
(*   n : numerator of a number, d : its denominator (n/d in lowest terms)  *)
(*   s : the text of a string, or the name of a function                   *)
(*   b : the entries of a range object, in insertion order                 *)
(* A JavaScript object (a row, a filter context, a registry of functions)  *)
(* is the sequence of its <<key, value>> entries in insertion order.       *)
(***************************************************************************)
EXTENDS Integers, Sequences, FiniteSets, TLC

VARIABLES db, metricRegistry, cache, calls, prev, last, pf, app

vars == <<db, metricRegistry, cache, calls, prev, last, pf, app>>

(***************************************************************************)
(* Bounds of the model.                                                    *)
(***************************************************************************)
\* largest bound value of a range filter; cell values run over 0..MaxVal+1
MaxVal == 2
\* longest row sequence handed to applyContextToFact on its own
MaxRows == 2
\* number of calls made through one caller-held cache
MaxCalls == 2
\* depth at which the JavaScript call stack is taken to be exhausted
MaxDepth == 4

(***************************************************************************)
(* JavaScript values.                                                      *)
(***************************************************************************)
JsValue(t, n, d, s, b) == [t |-> t, n |-> n, d |-> d, s |-> s, b |-> b]

Num(n) == JsValue("num", n, 1, "", <<>>)
Str(s) == JsValue("str", 0, 1, s, <<>>)
Fn(name) == JsValue("fn", 0, 1, name, <<>>)
Range(b) == JsValue("range", 0, 1, "", b)
Null == JsValue("null", 0, 1, "", <<>>)
Undefined == JsValue("undef", 0, 1, "", <<>>)
NaN == JsValue("nan", 0, 1, "", <<>>)

Abs(i) == IF i < 0 THEN -i ELSE i

RECURSIVE Gcd(_, _)
Gcd(a, b) == IF b = 0 THEN a ELSE Gcd(b, a % b)

\* the number n/d (d > 0) in lowest terms
Frac(n, d) ==
  LET g == Gcd(Abs(n), d) IN JsValue("num", n \div g, d \div g, "", <<>>)

\* x == null  (null or undefined)
IsNullish(v) == v.t \in {"null", "undef"}

\* !x
IsFalsy(v) ==
  \/ v.t \in {"null", "undef", "nan"}
  \/ v.t = "num" /\ v.n = 0
  \/ v.t = "str" /\ v.s = ""

\* Number(x): strings of the model are never numeric text
ToNumber(v) ==
  CASE v.t = "num" -> v
    [] v.t = "null" -> Num(0)
    [] OTHER -> NaN

\* a < b and a <= b of JavaScript on ToNumber of both sides: a comparison
\* with NaN is false
Less(a, b) ==
  LET x == ToNumber(a)
      y == ToNumber(b)
  IN x.t = "num" /\ y.t = "num" /\ x.n * y.d < y.n * x.d

LessEq(a, b) ==
  LET x == ToNumber(a)
      y == ToNumber(b)
  IN x.t = "num" /\ y.t = "num" /\ x.n * y.d <= y.n * x.d

\* a === b: NaN equals nothing, an object literal equals no cell value
StrictEquals(a, b) == a.t \notin {"nan", "range"} /\ a = b

\* x + y and x - y on numbers
NumAdd(x, y) ==
  IF x.t = "num" /\ y.t = "num" THEN Frac(x.n * y.d + y.n * x.d, x.d * y.d) ELSE NaN

NumSub(x, y) ==
  IF x.t = "num" /\ y.t = "num" THEN Frac(x.n * y.d - y.n * x.d, x.d * y.d) ELSE NaN

(***************************************************************************)
(* JavaScript objects as entry sequences.                                  *)
(***************************************************************************)
Keys(obj) == {obj[i][1] : i \in 1..Len(obj)}

Has(obj, k) == k \in Keys(obj)

\* obj[k]
Get(obj, k) ==
  IF Has(obj, k) THEN obj[CHOOSE i \in 1..Len(obj) : obj[i][1] = k][2] ELSE Undefined

\* obj[k] = v: an existing key keeps its place, a new key goes last
Set(obj, k, v) ==
  IF Has(obj, k)
  THEN [i \in 1..Len(obj) |-> IF obj[i][1] = k THEN <<k, v>> ELSE obj[i]]
  ELSE Append(obj, <<k, v>>)

\* { ...a, ...b }
RECURSIVE Spread(_, _)
Spread(a, b) == IF b = <<>> THEN a ELSE Spread(Set(a, Head(b)[1], Head(b)[2]), Tail(b))

SeqToSet(s) == {s[i] : i \in 1..Len(s)}

(***************************************************************************)
(* JSON.stringify of an object: entries whose value is undefined or a      *)
(* function are left out, NaN is written as null, a nested object is       *)
(* written member by member; the text keeps the insertion order of the     *)
(* keys.  The text is modelled by the sequence of its <<key, token>>       *)
(* members, a token being a JSON number, string, null or object.           *)
(***************************************************************************)
JsonToken(kind, n, d, s, members) ==
  [json |-> kind, n |-> n, d |-> d, s |-> s, members |-> members]

RECURSIVE JsonStringify(_)
JsonValueText(v) ==
  CASE v.t = "num" -> JsonToken("number", v.n, v.d, "", <<>>)
    [] v.t = "str" -> JsonToken("string", 0, 1, v.s, <<>>)
    [] v.t = "range" -> JsonToken("object", 0, 1, "", JsonStringify(v.b))
    [] OTHER -> JsonToken("null", 0, 1, "", <<>>)

JsonStringify(obj) ==
  IF obj = <<>> THEN <<>>
  ELSE LET e == Head(obj)
           rest == JsonStringify(Tail(obj))
       IN IF e[2].t \in {"undef", "fn"} THEN rest
          ELSE <<<<e[1], JsonValueText(e[2])>>>> \o rest

\* JSON.parse of such a text
RECURSIVE JsonParse(_)
JsonTokenValue(tok) ==
  CASE tok.json = "number" -> JsValue("num", tok.n, tok.d, "", <<>>)
    [] tok.json = "string" -> Str(tok.s)
    [] tok.json = "object" -> Range(JsonParse(tok.members))
    [] OTHER -> Null

JsonParse(text) ==
  IF text = <<>> THEN <<>>
  ELSE <<<<Head(text)[1], JsonTokenValue(Head(text)[2])>>>> \o JsonParse(Tail(text))

(***************************************************************************)
(* formatValue                                                             *)
(***************************************************************************)
\* n.toFixed(0) and n.toFixed(2): round half away from zero
Pow10(k) == IF k = 0 THEN 1 ELSE 100

ToFixed(v, digits) ==
  LET scale == Pow10(digits)
      mag == (2 * Abs(v.n) * scale + v.d) \div (2 * v.d)
      whole == mag \div scale
      part == mag % scale
      sign == IF v.n < 0 THEN "-" ELSE ""
  IN IF digits = 0 THEN sign \o ToString(whole)
     ELSE sign \o ToString(whole) \o "." \o
          (IF part < 10 THEN "0" ELSE "") \o ToString(part)

\* String(n): an integer prints as itself; a fraction is written n/d in
\* place of its decimal expansion
NumberToString(v) ==
  IF v.d = 1 THEN ToString(v.n) ELSE ToString(v.n) \o "/" \o ToString(v.d)

formatValue(value, format) ==
  IF IsNullish(value) \/ value.t = "nan" THEN Null
  ELSE CASE format = "currency" -> Str("$" \o ToFixed(value, 2))
         [] format = "integer" -> Str(ToFixed(value, 0))
         [] format = "percent" -> Str(ToFixed(value, 2) \o "%")
         [] OTHER -> Str(NumberToString(value))

(***************************************************************************)
(* matchesFilter                                                           *)
(***************************************************************************)
matchesFilter(value, filter) ==
  IF filter.t = "range"
  THEN LET f == filter.b IN
       IF Has(f, "from") \/ Has(f, "to")
       THEN IF ~IsNullish(Get(f, "from")) /\ Less(value, Get(f, "from")) THEN FALSE
            ELSE IF ~IsNullish(Get(f, "to")) /\ Less(Get(f, "to"), value) THEN FALSE
            ELSE TRUE
       ELSE IF ~IsNullish(Get(f, "gte")) /\ Less(value, Get(f, "gte")) THEN FALSE
            ELSE IF ~IsNullish(Get(f, "lte")) /\ Less(Get(f, "lte"), value) THEN FALSE
            ELSE IF ~IsNullish(Get(f, "gt")) /\ LessEq(value, Get(f, "gt")) THEN FALSE
            ELSE IF ~IsNullish(Get(f, "lt")) /\ LessEq(Get(f, "lt"), value) THEN FALSE
            ELSE TRUE
  ELSE StrictEquals(value, filter)

(***************************************************************************)
(* applyContextToFact: one where() per context entry, in entry order.      *)
(***************************************************************************)
Where(rows, key, filter) == SelectSeq(rows, LAMBDA r : matchesFilter(Get(r, key), filter))

\* applyContextToFact without the grain test: every filter narrows the rows
RECURSIVE applyContextToFact_IgnoresGrain(_, _, _)
applyContextToFact_IgnoresGrain(rows, context, grain) ==
  IF context = <<>> THEN rows
  ELSE IF IsNullish(Head(context)[2])
       THEN applyContextToFact_IgnoresGrain(rows, Tail(context), grain)
       ELSE applyContextToFact_IgnoresGrain(Where(rows, Head(context)[1], Head(context)[2]),
                                            Tail(context), grain)

\* applyContextToFact without the null test: a null filter is matched by ===
RECURSIVE applyContextToFact_MatchesNull(_, _, _)
applyContextToFact_MatchesNull(rows, context, grain) ==
  IF context = <<>> THEN rows
  ELSE IF Head(context)[1] \notin SeqToSet(grain)
       THEN applyContextToFact_MatchesNull(rows, Tail(context), grain)
       ELSE applyContextToFact_MatchesNull(Where(rows, Head(context)[1], Head(context)[2]),
                                           Tail(context), grain)

RECURSIVE applyContextToFact(_, _, _)
applyContextToFact(rows, context, grain) ==
  IF context = <<>> THEN rows
  ELSE LET key == Head(context)[1]
           filter == Head(context)[2]
       IN IF IsNullish(filter) THEN applyContextToFact(rows, Tail(context), grain)
          ELSE IF key \notin SeqToSet(grain)
               THEN applyContextToFact(rows, Tail(context), grain)
               ELSE applyContextToFact(Where(rows, key, filter), Tail(context), grain)

\* pick(obj, keys)
RECURSIVE pickInto(_, _, _)
pickInto(out, obj, keys) ==
  IF keys = <<>> THEN out
  ELSE LET k == Head(keys) IN
       IF Get(obj, k).t # "undef" THEN pickInto(Set(out, k, Get(obj, k)), obj, Tail(keys))
       ELSE pickInto(out, obj, Tail(keys))

\* the picked keys come out in the order the object has them
pick_InColumnOrder(obj, keys) ==
  SelectSeq(obj, LAMBDA e : e[1] \in SeqToSet(keys) /\ e[2] # Undefined)

pick(obj, keys) == pickInto(<<>>, obj, keys)

(***************************************************************************)
(* The built-in context transforms (demoTransforms).                       *)
(***************************************************************************)
\* Number(x) - 1
Decrement(v) == NumSub(ToNumber(v), Num(1))

\* the month itself kept as the filter: no range is made of it
ytd_KeepsMonth(ctx) == ctx

ytd(ctx) ==
  IF IsNullish(Get(ctx, "year")) \/ IsNullish(Get(ctx, "month")) THEN ctx
  ELSE Set(ctx, "month", Range(<<<<"lte", ToNumber(Get(ctx, "month"))>>>>))

lastYear(ctx) ==
  IF IsNullish(Get(ctx, "year")) THEN ctx
  ELSE Set(ctx, "year", Decrement(Get(ctx, "year")))

ytdLastYear(ctx) ==
  IF IsNullish(Get(ctx, "year")) \/ IsNullish(Get(ctx, "month")) THEN ctx
  ELSE Set(Set(ctx, "year", Decrement(Get(ctx, "year"))),
           "month", Range(<<<<"lte", ToNumber(Get(ctx, "month"))>>>>))

demoTransforms ==
  << <<"ytd", Fn("ytd")>>, <<"lastYear", Fn("lastYear")>>, <<"ytdLastYear", Fn("ytdLastYear")>> >>

\* fn(ctx) for a function value of the model
CallTransform(fn, ctx) ==
  CASE fn.s = "ytd" -> ytd(ctx)
    [] fn.s = "lastYear" -> lastYear(ctx)
    [] OTHER -> ytdLastYear(ctx)

\* whether fn(ctx) returns ctx itself (return ctx) rather than the object
\* literal {...ctx, ...}
ReturnsArgument(fn, ctx) ==
  CASE fn.s = "lastYear" -> IsNullish(Get(ctx, "year"))
    [] OTHER -> IsNullish(Get(ctx, "year")) \/ IsNullish(Get(ctx, "month"))

\* the changes written to the properties of ctx itself
ArgumentAfter_AssignedInPlace(fn, ctx) == CallTransform(fn, ctx)

\* ctx after fn(ctx): no transform assigns to a property of ctx
ArgumentAfter(fn, ctx) == ctx

\* the base metric evaluated under the context as it came in
TransformedContext_NotApplied(transformFn, context) == context

\* transformedContext = transformFn(context || {})
TransformedContext(transformFn, context) == CallTransform(transformFn, context)

(***************************************************************************)
(* Fact tables, databases and metric registries the engine is run on.      *)
(***************************************************************************)
Measure(column, defaultAgg, format) ==
  [column |-> column, defaultAgg |-> defaultAgg, format |-> format]

demoFactTables ==
  [t \in {"sales", "budget"} |->
     IF t = "sales"
     THEN [grain |-> <<"year", "month", "regionId", "productId">>,
           measures |-> [m \in {"amount", "quantity"} |->
                           IF m = "amount" THEN Measure("amount", "sum", "currency")
                           ELSE Measure("quantity", "sum", "integer")]]
     ELSE [grain |-> <<"year", "regionId">>,
           measures |-> [m \in {"budgetAmount"} |-> Measure("budgetAmount", "sum", "currency")]]]

SalesRow(year, month, regionId, productId, quantity, amount) ==
  << <<"year", Num(year)>>, <<"month", Num(month)>>, <<"regionId", Str(regionId)>>,
     <<"productId", Num(productId)>>, <<"quantity", Num(quantity)>>, <<"amount", Num(amount)>> >>

BudgetRow(year, regionId, budgetAmount) ==
  << <<"year", Num(year)>>, <<"regionId", Str(regionId)>>, <<"budgetAmount", Num(budgetAmount)>> >>

\* demoDb.facts
demoDb ==
  [t \in {"sales", "budget"} |->
     IF t = "sales"
     THEN << SalesRow(2024, 1, "NA", 1, 7, 700),
             SalesRow(2024, 1, "NA", 2, 4, 480),
             SalesRow(2024, 2, "NA", 1, 5, 650),
             SalesRow(2024, 2, "EU", 1, 3, 420),
             SalesRow(2025, 1, "NA", 1, 10, 1000),
             SalesRow(2025, 1, "NA", 2, 5, 600),
             SalesRow(2025, 1, "EU", 1, 4, 500),
             SalesRow(2025, 2, "NA", 1, 8, 950),
             SalesRow(2025, 2, "EU", 2, 3, 450) >>
     ELSE << BudgetRow(2024, "NA", 1500),
             BudgetRow(2024, "EU", 1000),
             BudgetRow(2025, "NA", 2200),
             BudgetRow(2025, "EU", 1600) >>]

\* a database with ragged rows (cells missing, null or not numeric), no rows
\* loaded for the budget table, and rows loaded for a returns table that the
\* fact table registry does not describe and whose first row has no month
raggedDb ==
  [t \in {"sales", "returns"} |->
     IF t = "sales"
     THEN << << <<"year", Num(2025)>>, <<"month", Num(1)>>, <<"regionId", Str("NA")>>,
                <<"quantity", Num(2)>>, <<"amount", Num(100)>> >>,
             << <<"regionId", Str("EU")>>, <<"year", Num(2025)>>, <<"amount", Null>>,
                <<"quantity", Num(0)>> >>,
             << <<"year", Num(2024)>>, <<"month", Num(2)>>, <<"regionId", Str("NA")>>,
                <<"quantity", Num(3)>> >>,
             << <<"year", Num(2025)>>, <<"month", Num(2)>>, <<"regionId", Str("NA")>>,
                <<"quantity", Num(0)>>, <<"amount", Str("n/a")>> >> >>
     ELSE << << <<"regionId", Str("NA")>>, <<"year", Num(2025)>>, <<"amount", Num(50)>> >>,
             << <<"year", Num(2025)>>, <<"month", Num(1)>>, <<"regionId", Str("NA")>>,
                <<"amount", Num(20)>> >>,
             << <<"month", Num(2)>>, <<"year", Num(2025)>>, <<"regionId", Str("EU")>>,
                <<"amount", Num(30)>> >>,
             << <<"year", Num(2025)>>, <<"month", Num(2)>>, <<"regionId", Str("NA")>>,
                <<"amount", Num(10)>> >> >>]

Databases == {demoDb, raggedDb}

\* A metric definition; a field a kind does not carry is left at its blank:
\* agg "" and hasGrain FALSE stand for an omitted agg and grain.
Metric(kind, format) ==
  [kind |-> kind, format |-> format, factTable |-> "", factColumn |-> "", agg |-> "",
   hasGrain |-> FALSE, grain |-> <<>>, expression |-> "", dependencies |-> <<>>,
   evalFromDeps |-> "", baseMeasure |-> "", transform |-> ""]

FactMeasure(factTable, factColumn, format) ==
  [Metric("factMeasure", format) EXCEPT !.factTable = factTable, !.factColumn = factColumn]

Expression(factTable, expression, format) ==
  [Metric("expression", format) EXCEPT !.factTable = factTable, !.expression = expression]

Derived(dependencies, evalFromDeps, format) ==
  [Metric("derived", format) EXCEPT !.dependencies = dependencies, !.evalFromDeps = evalFromDeps]

ContextTransform(baseMeasure, transform, format) ==
  [Metric("contextTransform", format) EXCEPT !.baseMeasure = baseMeasure, !.transform = transform]

\* buildDemoMetrics, with a count and an avg measure added
demoMetricNames ==
  {"totalSalesAmount", "totalBudget", "salesAmountYearRegion", "pricePerUnit",
   "salesVsBudgetPct", "salesAmountYTD", "salesAmountLastYear", "salesAmountYTDLastYear",
   "budgetYTD", "salesVsBudgetPctYTD", "salesCount", "avgQuantity"}

demoMetrics ==
  [m \in demoMetricNames |->
     CASE m = "totalSalesAmount" -> FactMeasure("sales", "amount", "currency")
       [] m = "totalBudget" -> FactMeasure("budget", "budgetAmount", "currency")
       [] m = "salesAmountYearRegion" ->
            [FactMeasure("sales", "amount", "currency")
               EXCEPT !.hasGrain = TRUE, !.grain = <<"year", "regionId">>]
       [] m = "pricePerUnit" -> Expression("sales", "pricePerUnit", "currency")
       [] m = "salesVsBudgetPct" ->
            Derived(<<"totalSalesAmount", "totalBudget">>, "ratioPct", "percent")
       [] m = "salesAmountYTD" -> ContextTransform("totalSalesAmount", "ytd", "currency")
       [] m = "salesAmountLastYear" ->
            ContextTransform("totalSalesAmount", "lastYear", "currency")
       [] m = "salesAmountYTDLastYear" ->
            ContextTransform("totalSalesAmount", "ytdLastYear", "currency")
       [] m = "budgetYTD" -> ContextTransform("totalBudget", "ytd", "currency")
       [] m = "salesVsBudgetPctYTD" ->
            Derived(<<"salesAmountYTD", "budgetYTD">>, "ratioPct", "percent")
       [] m = "salesCount" ->
            [FactMeasure("sales", "amount", "integer") EXCEPT !.agg = "count"]
       [] OTHER -> [FactMeasure("sales", "quantity", "") EXCEPT !.agg = "avg"]]

\* a registry whose definitions name things their registries do not hold,
\* or reach themselves through a dependency or a base metric
brokenMetricNames ==
  {"totalSalesAmount", "returnsAmount", "returnsPerUnit", "salesMargin", "marginCount",
   "medianSales", "salesAmountQTD", "salesVsGhost", "budgetYTD", "totalBudget",
   "returnsYTD", "ghostYTD", "loopPct", "loopYTD", "ghostLoop"}

brokenMetrics ==
  [m \in brokenMetricNames |->
     CASE m = "totalSalesAmount" -> FactMeasure("sales", "amount", "currency")
       [] m = "totalBudget" -> FactMeasure("budget", "budgetAmount", "currency")
       [] m = "returnsAmount" -> FactMeasure("returns", "amount", "currency")
       [] m = "returnsPerUnit" -> Expression("returns", "pricePerUnit", "currency")
       [] m = "salesMargin" -> FactMeasure("sales", "margin", "currency")
       [] m = "marginCount" ->
            [FactMeasure("sales", "margin", "integer") EXCEPT !.agg = "count"]
       [] m = "medianSales" ->
            [FactMeasure("sales", "amount", "currency") EXCEPT !.agg = "median"]
       [] m = "salesAmountQTD" -> ContextTransform("totalSalesAmount", "qtd", "currency")
       [] m = "budgetYTD" -> ContextTransform("totalBudget", "ytd", "currency")
       [] m = "returnsYTD" -> ContextTransform("returnsAmount", "ytd", "currency")
       [] m = "ghostYTD" -> ContextTransform("ghost", "ytd", "currency")
       [] m = "loopPct" -> Derived(<<"totalSalesAmount", "loopYTD">>, "ratioPct", "percent")
       [] m = "loopYTD" -> ContextTransform("loopPct", "ytd", "percent")
       [] m = "ghostLoop" -> Derived(<<"ghost", "ghostLoop">>, "ratioPct", "percent")
       [] OTHER -> Derived(<<"totalSalesAmount", "ghost">>, "ratioPct", "percent")]

Registries == {demoMetrics, brokenMetrics}

\* the metric names a caller asks for: registered ones and one that is not
MetricNames == demoMetricNames \cup brokenMetricNames \cup {"ghost"}

(***************************************************************************)
(* The row-set aggregates (linq): sum folds from 0, average is sum/count   *)
(* (0/0 on an empty sequence), count is the length.                        *)
(***************************************************************************)
\* Number(r[col] ?? 0)
Cell(r, col) == IF IsNullish(Get(r, col)) THEN Num(0) ELSE ToNumber(Get(r, col))

RECURSIVE SumFrom(_, _, _)
SumFrom(acc, q, col) ==
  IF q = <<>> THEN acc ELSE SumFrom(NumAdd(acc, Cell(Head(q), col)), Tail(q), col)

\* a sum without a seed: no value when there is no row
Sum_NullWhenEmpty(q, col) == IF q = <<>> THEN Null ELSE SumFrom(Num(0), q, col)

Sum(q, col) == SumFrom(Num(0), q, col)

\* x / y
NumDiv(x, y) ==
  IF x.t # "num" \/ y.t # "num" \/ y.n = 0 THEN NaN
  ELSE IF y.n < 0 THEN Frac(-(x.n * y.d), x.d * (-y.n))
  ELSE Frac(x.n * y.d, x.d * y.n)

Average(q, col) == NumDiv(Sum(q, col), Num(Len(q)))

Count(q) == Num(Len(q))

\* x ?? y
Coalesce(x, y) == IF IsNullish(x) THEN y ELSE x

\* the expression of demoMetrics.pricePerUnit
pricePerUnit(q) ==
  LET amount == Sum(q, "amount")
      qty == Sum(q, "quantity")
  IN IF IsFalsy(qty) THEN Null ELSE NumDiv(amount, qty)

\* the combinator of demoMetrics.salesVsBudgetPct, on its two dependencies
ratioPct(depValues, dependencies) ==
  LET s == Coalesce(Get(depValues, dependencies[1]), Num(0))
      b == Coalesce(Get(depValues, dependencies[2]), Num(0))
  IN IF IsFalsy(b) THEN Null
     ELSE LET r == NumDiv(s, b) IN IF r.t = "num" THEN Frac(r.n * 100, r.d) ELSE NaN

(***************************************************************************)
(* evaluateMetric.  An evaluation ends by returning a value or by throwing *)
(* an error; either way it leaves the cache it was handed as it then is,   *)
(* and the log of what it did:                                             *)
(*   <<"call", depth, metric, context>>     evaluateMetric was entered     *)
(*   <<"hit", depth, metric, context>>      it returned the cached value   *)
(*   <<"compute", depth, metric, context>>  it ran the aggregation, the    *)
(*                                          expression or the combinator   *)
(***************************************************************************)
cacheKey(metricName, context) == <<metricName, JsonStringify(context)>>

NoError == <<"", "">>

Returned(value, c, log) == [ok |-> TRUE, val |-> value, err |-> NoError, cache |-> c, log |-> log]

\* an error swallowed: null is returned in its place
Thrown_ReturnsNull(message, subject, c, log) == Returned(Null, c, log)

\* the entries of the failed evaluation rolled back with it
Thrown_DropsCache(message, subject, c, log) ==
  [ok |-> FALSE, val |-> Undefined, err |-> <<message, subject>>,
   cache |-> [k \in {} |-> Null], log |-> log]

Thrown(message, subject, c, log) ==
  [ok |-> FALSE, val |-> Undefined, err |-> <<message, subject>>, cache |-> c, log |-> log]

\* the cache holding the latest entry only
CacheSet_KeepsLatestOnly(c, key, value) == [k \in {key} |-> value]

\* cache.set(key, value)
CacheSet(c, key, value) == [k \in DOMAIN c \cup {key} |-> IF k = key THEN value ELSE c[k]]

\* return value, with nothing stored
StoreAndReturn_NoStore(key, value, c, log) == Returned(value, c, log)

\* cache.set(key, value); return value
StoreAndReturn(key, value, c, log) == Returned(value, CacheSet(c, key, value), log)

EmptyCache == [k \in {} |-> Null]

\* the cache of the caller's earlier calls is used again
NewMap_KeptAcrossCalls == cache

\* new Map(): the cache a call makes for itself
NewMap == EmptyCache

\* the grain of the table, whatever the metric says
EffectiveGrain_OfTable(def, factDef) == factDef.grain

\* def.grain ?? factDef.grain
EffectiveGrain(def, factDef) == IF def.hasGrain THEN def.grain ELSE factDef.grain

\* an agg the engine does not know falls back to the measure's default
EffectiveAgg_FallsBack(def, factMeasureDef) ==
  IF def.agg \in {"sum", "avg", "count"} THEN def.agg ELSE factMeasureDef.defaultAgg

\* def.agg ?? factMeasureDef.defaultAgg
EffectiveAgg(def, factMeasureDef) == IF def.agg = "" THEN factMeasureDef.defaultAgg ELSE def.agg

\* F(v), with v evaluated once
Let(v, F(_)) == CHOOSE y \in {F(x) : x \in {v}} : TRUE

RECURSIVE evaluateMetric(_, _, _, _, _, _, _)
RECURSIVE evaluateDependencies(_, _, _, _, _, _, _, _)

\* the dependencies evaluated under an empty context
RECURSIVE evaluateDependencies_DropsContext(_, _, _, _, _, _, _, _)
evaluateDependencies_DropsContext(registry, deps, depValues, context, transforms, c, log, depth) ==
  IF deps = <<>> THEN [ok |-> TRUE, val |-> depValues, err |-> NoError, cache |-> c, log |-> log]
  ELSE Let(evaluateMetric(registry, Head(deps), <<>>, transforms, c, log, depth),
           LAMBDA r :
             IF ~r.ok THEN r
             ELSE evaluateDependencies_DropsContext(registry, Tail(deps),
                                                    Set(depValues, Head(deps), r.val),
                                                    context, transforms, r.cache, r.log, depth))

\* the loop left after the first dependency
evaluateDependencies_FirstOnly(registry, deps, depValues, context, transforms, c, log, depth) ==
  IF deps = <<>> THEN [ok |-> TRUE, val |-> depValues, err |-> NoError, cache |-> c, log |-> log]
  ELSE Let(evaluateMetric(registry, Head(deps), context, transforms, c, log, depth),
           LAMBDA r :
             IF ~r.ok THEN r
             ELSE [ok |-> TRUE, val |-> Set(depValues, Head(deps), r.val), err |-> NoError,
                   cache |-> r.cache, log |-> r.log])

\* the loop over def.dependencies: the result carries depValues as its val
evaluateDependencies(registry, deps, depValues, context, transforms, c, log, depth) ==
  IF deps = <<>> THEN [ok |-> TRUE, val |-> depValues, err |-> NoError, cache |-> c, log |-> log]
  ELSE Let(evaluateMetric(registry, Head(deps), context, transforms, c, log, depth),
           LAMBDA r :
             IF ~r.ok THEN r
             ELSE evaluateDependencies(registry, Tail(deps), Set(depValues, Head(deps), r.val),
                                       context, transforms, r.cache, r.log, depth))

evaluateMetric(registry, metricName, context, transforms, c, log, depth) ==
  LET key == cacheKey(metricName, context)
      entered == Append(log, <<"call", depth, metricName, context>>)
      computed == Append(entered, <<"compute", depth, metricName, context>>)
  IN
  IF depth > MaxDepth THEN Thrown("Maximum call stack size exceeded", "", c, entered)
  ELSE IF key \in DOMAIN c
  THEN Returned(Coalesce(c[key], Null), c, Append(entered, <<"hit", depth, metricName, context>>))
  ELSE IF metricName \notin DOMAIN registry
  THEN Thrown("Unknown metric", metricName, c, entered)
  ELSE LET def == registry[metricName] IN
  CASE def.kind = "factMeasure" ->
         IF def.factTable \notin DOMAIN demoFactTables
         THEN Thrown("Unknown fact table", def.factTable, c, entered)
         ELSE IF def.factTable \notin DOMAIN db
         THEN Thrown("Missing rows for fact table", def.factTable, c, entered)
         ELSE LET factDef == demoFactTables[def.factTable]
                  q == applyContextToFact(db[def.factTable], context, EffectiveGrain(def, factDef))
              IN IF def.factColumn \notin DOMAIN factDef.measures
                 THEN Thrown("Unknown fact column", def.factColumn, c, entered)
                 ELSE LET factMeasureDef == factDef.measures[def.factColumn]
                          col == factMeasureDef.column
                          agg == EffectiveAgg(def, factMeasureDef)
                      IN CASE agg = "sum" -> StoreAndReturn(key, Sum(q, col), c, computed)
                           [] agg = "avg" -> StoreAndReturn(key, Average(q, col), c, computed)
                           [] agg = "count" -> StoreAndReturn(key, Count(q), c, computed)
                           [] OTHER -> Thrown("Unsupported aggregation", agg, c, entered)
    [] def.kind = "expression" ->
         IF def.factTable \notin DOMAIN demoFactTables
         THEN Thrown("Unknown fact table", def.factTable, c, entered)
         ELSE IF def.factTable \notin DOMAIN db
         THEN Thrown("Missing rows for fact table", def.factTable, c, entered)
         ELSE LET factDef == demoFactTables[def.factTable]
                  q == applyContextToFact(db[def.factTable], context, EffectiveGrain(def, factDef))
              IN StoreAndReturn(key, pricePerUnit(q), c, computed)
    [] def.kind = "derived" ->
         Let(evaluateDependencies(registry, def.dependencies, <<>>, context, transforms,
                                  c, entered, depth + 1),
             LAMBDA deps :
               IF ~deps.ok THEN deps
               ELSE StoreAndReturn(key, ratioPct(deps.val, def.dependencies), deps.cache,
                                   Append(deps.log, <<"compute", depth, metricName, context>>)))
    [] def.kind = "contextTransform" ->
         LET transformFn == Get(transforms, def.transform) IN
         IF IsFalsy(transformFn)
         THEN Thrown("Unknown context transform", def.transform, c, entered)
         ELSE IF transformFn.t # "fn"
         THEN Thrown("transformFn is not a function", def.transform, c, entered)
         ELSE Let(evaluateMetric(registry, def.baseMeasure, TransformedContext(transformFn, context),
                                 transforms, c, entered, depth + 1),
                  LAMBDA base :
                    IF ~base.ok THEN base
                    ELSE StoreAndReturn(key, base.val, base.cache, base.log))
    [] OTHER -> Thrown("Unknown metric kind", def.kind, c, entered)

(***************************************************************************)
(* evaluateMetrics: one new cache for all the names.                       *)
(***************************************************************************)
RECURSIVE evaluateMetricsLoop(_, _, _, _, _, _, _)
evaluateMetricsLoop(registry, metricNames, results, context, transforms, c, log) ==
  IF metricNames = <<>>
  THEN [ok |-> TRUE, val |-> results, err |-> NoError, cache |-> c, log |-> log]
  ELSE Let(evaluateMetric(registry, Head(metricNames), context, transforms, c, log, 1),
           LAMBDA r :
             IF ~r.ok THEN r
             ELSE evaluateMetricsLoop(registry, Tail(metricNames), Set(results, Head(metricNames), r.val),
                                      context, transforms, r.cache, r.log))

\* the names are evaluated under an empty context
evaluateMetrics_DropsContext(registry, metricNames, context, transforms) ==
  evaluateMetricsLoop(registry, metricNames, <<>>, <<>>, transforms, NewMap, <<>>)

evaluateMetrics(registry, metricNames, context, transforms) ==
  evaluateMetricsLoop(registry, metricNames, <<>>, context, transforms, NewMap, <<>>)

(***************************************************************************)
(* runQuery                                                                *)
(***************************************************************************)
\* demoDb.dimensions and demoDimensionConfig
demoDimensions ==
  [t \in {"regions", "products"} |->
     IF t = "regions"
     THEN << << <<"regionId", Str("NA")>>, <<"name", Str("North America")>> >>,
             << <<"regionId", Str("EU")>>, <<"name", Str("Europe")>> >> >>
     ELSE << << <<"productId", Num(1)>>, <<"name", Str("Widget A")>> >>,
             << <<"productId", Num(2)>>, <<"name", Str("Widget B")>> >> >>]

DimensionEntry(table, key, labelProp, labelAlias) ==
  [table |-> table, key |-> key, labelProp |-> labelProp, labelAlias |-> labelAlias]

demoDimensionConfig ==
  << <<"regionId", DimensionEntry("regions", "regionId", "name", "regionName")>>,
     <<"productId", DimensionEntry("products", "productId", "name", "productName")>> >>

RECURSIVE enrichInto(_, _, _)
enrichInto(result, keyObj, config) ==
  IF config = <<>> THEN result
  ELSE LET dimKey == Head(config)[1]
           cfg == Head(config)[2]
           dimTable == IF cfg.table \in DOMAIN demoDimensions THEN demoDimensions[cfg.table] ELSE <<>>
           found == SelectSeq(dimTable, LAMBDA d : StrictEquals(Get(d, cfg.key), Get(keyObj, dimKey)))
       IN IF IsNullish(Get(keyObj, dimKey)) \/ found = <<>>
          THEN enrichInto(result, keyObj, Tail(config))
          ELSE enrichInto(Set(result, cfg.labelAlias, Get(Head(found), cfg.labelProp)),
                          keyObj, Tail(config))

enrichDimensions(keyObj, dimensionConfig) == enrichInto(keyObj, keyObj, dimensionConfig)

\* groupBy(keySelector): the groups in the order their keys first appear
RECURSIVE GroupInto(_, _, _)
GroupInto(groups, rows, rowDims) ==
  IF rows = <<>> THEN groups
  ELSE LET r == Head(rows)
           k == JsonStringify(pick(r, rowDims))
           at == {i \in 1..Len(groups) : groups[i].key = k}
       IN IF at = {}
          THEN GroupInto(Append(groups, [key |-> k, rows |-> <<r>>]), Tail(rows), rowDims)
          ELSE GroupInto([i \in 1..Len(groups) |->
                            IF i \in at THEN [groups[i] EXCEPT !.rows = Append(@, r)]
                            ELSE groups[i]],
                         Tail(rows), rowDims)

\* every row is a group of its own
GroupBy_NeverMerges(rows, rowDims) ==
  [i \in 1..Len(rows) |-> [key |-> JsonStringify(pick(rows[i], rowDims)), rows |-> <<rows[i]>>]]

\* the groups come out latest key first
GroupBy_LatestFirst(rows, rowDims) ==
  [i \in 1..Len(GroupInto(<<>>, rows, rowDims)) |->
     GroupInto(<<>>, rows, rowDims)[Len(GroupInto(<<>>, rows, rowDims)) + 1 - i]]

GroupBy(rows, rowDims) == GroupInto(<<>>, rows, rowDims)

\* Object.keys(factRows[0] || {})
FactGrain(factRows) ==
  IF factRows = <<>> THEN <<>> ELSE [i \in 1..Len(factRows[1]) |-> factRows[1][i][1]]

\* the row context of a group: { ...filters, ...keyObj }
RowContext(filters, groupKey) == Spread(filters, JsonParse(groupKey))

\* the loop over options.metrics for one group.  evaluateMetric is handed
\* transforms where its parameter list has context and rowContext where it
\* has transforms (semanticEngine.ts:457-465).
RECURSIVE metricValuesLoop(_, _, _, _, _, _, _)
metricValuesLoop(registry, metrics, metricValues, rowContext, transforms, c, log) ==
  IF metrics = <<>>
  THEN [ok |-> TRUE, val |-> metricValues, err |-> NoError, cache |-> c, log |-> log]
  ELSE Let(evaluateMetric(registry, Head(metrics), transforms, rowContext, c, log, 1),
           LAMBDA r :
             IF ~r.ok THEN r
             ELSE metricValuesLoop(registry, Tail(metrics),
                                   Set(metricValues, Head(metrics),
                                       formatValue(r.val, registry[Head(metrics)].format)),
                                   rowContext, transforms, r.cache, r.log))

\* the loop over the groups
RECURSIVE groupsLoop(_, _, _, _, _, _, _)
\* every group gets a cache of its own
groupsLoop_CachePerGroup(registry, groups, result, options, transforms, c, log) ==
  IF groups = <<>>
  THEN [ok |-> TRUE, val |-> result, err |-> NoError, cache |-> c, log |-> log]
  ELSE Let(metricValuesLoop(registry, options.metrics, <<>>,
                            RowContext(options.filters, Head(groups).key), transforms,
                            EmptyCache, log),
           LAMBDA mv :
             IF ~mv.ok THEN mv
             ELSE groupsLoop(registry, Tail(groups),
                             Append(result,
                                    Spread(enrichDimensions(JsonParse(Head(groups).key),
                                                            demoDimensionConfig),
                                           mv.val)),
                             options, transforms, mv.cache, mv.log))

\* a group whose metrics fail is left out of the result
groupsLoop_SkipsFailedGroup(registry, groups, result, options, transforms, c, log) ==
  IF groups = <<>>
  THEN [ok |-> TRUE, val |-> result, err |-> NoError, cache |-> c, log |-> log]
  ELSE Let(metricValuesLoop(registry, options.metrics, <<>>,
                            RowContext(options.filters, Head(groups).key), transforms, c, log),
           LAMBDA mv :
             IF ~mv.ok THEN groupsLoop(registry, Tail(groups), result, options, transforms, c, log)
             ELSE groupsLoop(registry, Tail(groups),
                             Append(result,
                                    Spread(enrichDimensions(JsonParse(Head(groups).key),
                                                            demoDimensionConfig),
                                           mv.val)),
                             options, transforms, mv.cache, mv.log))

groupsLoop(registry, groups, result, options, transforms, c, log) ==
  IF groups = <<>>
  THEN [ok |-> TRUE, val |-> result, err |-> NoError, cache |-> c, log |-> log]
  ELSE Let(metricValuesLoop(registry, options.metrics, <<>>,
                            RowContext(options.filters, Head(groups).key), transforms, c, log),
           LAMBDA mv :
             IF ~mv.ok THEN mv
             ELSE groupsLoop(registry, Tail(groups),
                             Append(result,
                                    Spread(enrichDimensions(JsonParse(Head(groups).key),
                                                            demoDimensionConfig),
                                           mv.val)),
                             options, transforms, mv.cache, mv.log))

\* the rows runQuery groups: the fact rows that pass options.filters
FilteredRows(options) ==
  applyContextToFact(db[options.factForRows], options.filters, FactGrain(db[options.factForRows]))

runQuery(registry, transforms, options) ==
  IF options.factForRows \notin DOMAIN db
  THEN Thrown("Unknown fact table", options.factForRows, EmptyCache, <<>>)
  ELSE groupsLoop(registry, GroupBy(FilteredRows(options), options.rows), <<>>, options, transforms,
                  NewMap, <<>>)

(***************************************************************************)
(* The inputs of the calls.                                                *)
(***************************************************************************)
ContextKeys == {"year", "month", "regionId"}

ContextValues(k) ==
  CASE k = "year" -> {Num(2024), Num(2025)}
    [] k = "month" -> {Num(1), Num(2), Null}
    [] OTHER -> {Str("NA")}

ContextEntries == UNION {{<<k, v>> : v \in ContextValues(k)} : k \in ContextKeys}

DistinctKeys(obj) == \A i, j \in 1..Len(obj) : obj[i][1] = obj[j][1] => i = j

\* every filter context over the keys, in every insertion order
Contexts ==
  {ctx \in UNION {[1..n -> ContextEntries] : n \in 0..Cardinality(ContextKeys)} :
     DistinctKeys(ctx)}

\* the contexts of the calls that go through a cache the caller holds
HeldContexts ==
  {<<>>,
   << <<"year", Num(2025)>>, <<"month", Num(2)>> >>,
   << <<"month", Num(2)>>, <<"year", Num(2025)>> >>}

\* the names asked of the registry in use: its own, one no registry has, and
\* the ones the caller's cache was filled with
Requestable == DOMAIN metricRegistry \cup {"ghost"} \cup {k[1] : k \in DOMAIN cache}

NameLists ==
  {<<m>> : m \in Requestable} \cup
  {<<"totalSalesAmount", "totalBudget">>, <<"budgetYTD", "totalBudget">>,
   <<"totalBudget", "ghost">>, <<"totalBudget", "budgetYTD">>,
   <<"salesVsBudgetPct", "totalSalesAmount">>}

QueryRows == {<<>>, <<"regionId">>, <<"regionId", "productId">>, <<"year", "month">>}

QueryFilters ==
  {<<>>,
   << <<"year", Num(2025)>>, <<"month", Num(2)>> >>,
   << <<"year", Num(2025)>>, <<"month", Num(2)>>, <<"regionId", Str("NA")>> >>,
   << <<"month", Num(1)>> >>,
   << <<"year", Num(2023)>> >>}

QueryOptions ==
  [rows : QueryRows, filters : QueryFilters, metrics : NameLists,
   factForRows : {"sales", "budget", "returns"}]

NoOptions == [rows |-> <<>>, filters |-> <<>>, metrics |-> <<>>, factForRows |-> ""]

(***************************************************************************)
(* The playground (engineBridge and App): the text of the metric editor,   *)
(* the overrides parsed from it, the query request and the result state.   *)
(* A text of the editor is its characters, and the array it is the JSON    *)
(* text of when it is one.                                                 *)
(***************************************************************************)
MetricEntry(name, def) == [name |-> name, def |-> def]

EditorText(text, json) == [text |-> text, json |-> json]

EDITABLE_METRICS ==
  <<"totalSalesAmount", "totalSalesQuantity", "totalBudget", "salesAmountYearRegion">>

\* JSON.stringify(EDITABLE_METRICS.map(name => demoMetrics[name]).filter(Boolean))
defaultMetricEditorText ==
  LET names == SelectSeq(EDITABLE_METRICS, LAMBDA name : name \in DOMAIN demoMetrics)
  IN EditorText("[...]", [i \in 1..Len(names) |-> MetricEntry(names[i], demoMetrics[names[i]])])

\* FACT_MEASURE_SCHEMA accepts the definition
FACT_MEASURE_SCHEMA(entry) ==
  /\ entry.def.kind = "factMeasure"
  /\ entry.name # ""
  /\ entry.def.factTable # ""
  /\ entry.def.factColumn # ""
  /\ entry.def.agg \in {"", "sum", "avg", "count"}
  /\ entry.def.hasGrain => entry.def.grain # <<>>

NoParseError == ""

validateMetricOverrides(value) ==
  IF value.text \in {"", " "} THEN [definitions |-> <<>>, error |-> NoParseError]
  ELSE IF value.text # "[...]"
  THEN [definitions |-> <<>>, error |-> "Unexpected end of JSON input"]
  ELSE IF \E i \in 1..Len(value.json) : ~FACT_MEASURE_SCHEMA(value.json[i])
  THEN [definitions |-> <<>>, error |-> "Invalid input"]
  ELSE [definitions |-> value.json, error |-> NoParseError]

defaultParsed == validateMetricOverrides(defaultMetricEditorText).definitions

\* {...demoMetrics} with registry[metric.name] = metric for each override
buildMetricRegistry(overrides) ==
  [m \in DOMAIN demoMetrics \cup {overrides[i].name : i \in 1..Len(overrides)} |->
     IF \E i \in 1..Len(overrides) : overrides[i].name = m
     THEN overrides[CHOOSE i \in 1..Len(overrides) :
                      /\ overrides[i].name = m
                      /\ \A j \in (i + 1)..Len(overrides) : overrides[j].name # m].def
     ELSE demoMetrics[m]]

\* the texts typed into the editor or found in localStorage
EditorTexts ==
  {defaultMetricEditorText,
   EditorText("", <<>>),
   EditorText(" ", <<>>),
   EditorText("[{", <<>>),
   EditorText("[...]", << MetricEntry("salesVsBudgetPct", demoMetrics["salesVsBudgetPct"]) >>),
   EditorText("[...]", << MetricEntry("totalSalesAmount",
                                      FactMeasure("returns", "amount", "currency")) >>),
   EditorText("[...]", << MetricEntry("totalSalesAmount",
                                      [FactMeasure("sales", "amount", "integer")
                                         EXCEPT !.agg = "count"]) >>)}

PlaygroundQueryRequest(rows, metrics, factForRows, filters) ==
  [rows |-> rows, filters |-> filters, metrics |-> metrics, factForRows |-> factForRows]

defaultQueryRequest ==
  PlaygroundQueryRequest(<<"regionId", "productId">>,
                         <<"totalSalesAmount", "pricePerUnit", "salesVsBudgetPct">>, "sales",
                         << <<"year", Num(2025)>>, <<"month", Num(2)>> >>)

\* the requests the query builder is set to
PlaygroundRequests ==
  {defaultQueryRequest,
   PlaygroundQueryRequest(<<"regionId">>, <<"totalSalesAmount", "salesAmountYTD">>, "sales",
                          << <<"year", Num(2025)>>, <<"month", Num(2)>> >>),
   PlaygroundQueryRequest(<<>>, <<"totalBudget">>, "budget", << <<"year", Num(2025)>> >>),
   PlaygroundQueryRequest(<<"regionId">>, <<>>, "sales", <<>>)}

snapshotRequest(request) ==
  [factForRows |-> request.factForRows,
   metrics |-> [i \in 1..Len(request.metrics) |-> request.metrics[i]],
   rows |-> [i \in 1..Len(request.rows) |-> request.rows[i]],
   filters |-> Spread(<<>>, request.filters)]

\* performance.now() - start
Durations == {Num(0), Num(1)}

\* the state of App at construction, with what localStorage holds (nothing,
\* or one text) and the handler that ran last
AppState(storage) ==
  [mounted |-> FALSE,
   editorValue |-> defaultMetricEditorText,
   activeOverrides |-> defaultParsed,
   queryState |-> snapshotRequest(defaultQueryRequest),
   resultRows |-> <<>>,
   durationMs |-> Null,
   error |-> NoError,
   lastRequest |-> snapshotRequest(defaultQueryRequest),
   isRunning |-> FALSE,
   storage |-> storage,
   event |-> "none"]

(***************************************************************************)
(* The state: the database and the registry in use, the cache the caller   *)
(* holds and the number of calls made through it, and the last two calls.  *)
(* A call is recorded with its arguments, the cache it was handed and its  *)
(* result.                                                                 *)
(***************************************************************************)
CallRecord(op, metricName, metricNames, context, options, held, before, res) ==
  [op |-> op, metricName |-> metricName, metricNames |-> metricNames, context |-> context,
   options |-> options, held |-> held, before |-> before, res |-> res]

NoCall ==
  CallRecord("none", "", <<>>, <<>>, NoOptions, FALSE, EmptyCache,
             Returned(Undefined, EmptyCache, <<>>))

NoApplication == [fn |-> "none", args |-> <<>>, result |-> <<>>]

Init ==
  /\ db \in Databases
  /\ metricRegistry \in Registries
  /\ cache = EmptyCache
  /\ calls = 0
  /\ prev = NoCall
  /\ last = NoCall
  /\ pf = NoApplication
  /\ app = AppState(<<>>)

\* evaluateMetric(name, ..., context, transforms) with the default cache
EvaluateMetricFresh ==
  /\ calls = 0
  /\ last.op = "none"
  /\ \E metricName \in Requestable, context \in Contexts :
       last' = CallRecord("evaluateMetric", metricName, <<>>, context, NoOptions, FALSE,
                          NewMap,
                          evaluateMetric(metricRegistry, metricName, context, demoTransforms, NewMap, <<>>, 1))
  /\ UNCHANGED <<db, metricRegistry, cache, calls, prev, pf, app>>

\* evaluateMetric(name, ..., context, transforms, cache) with the caller's cache
EvaluateMetricHeld ==
  /\ calls < MaxCalls
  /\ last.op = "none" \/ (calls > 0 /\ last.held)
  /\ \E metricName \in Requestable, context \in HeldContexts :
       LET res == evaluateMetric(metricRegistry, metricName, context, demoTransforms, cache, <<>>, 1) IN
       /\ last' = CallRecord("evaluateMetric", metricName, <<>>, context, NoOptions, TRUE,
                             cache, res)
       /\ cache' = res.cache
  /\ calls' = calls + 1
  /\ prev' = last
  /\ UNCHANGED <<db, metricRegistry, pf, app>>

\* the caller is done with the result of its last call and lets go of the
\* cache it holds
DiscardCache ==
  /\ last.op # "none"
  /\ cache' = EmptyCache
  /\ calls' = 0
  /\ prev' = NoCall
  /\ last' = NoCall
  /\ UNCHANGED <<db, metricRegistry, pf, app>>

EvaluateMetrics ==
  /\ calls = 0
  /\ last.op = "none"
  /\ \E metricNames \in NameLists, context \in HeldContexts :
       last' = CallRecord("evaluateMetrics", "", metricNames, context, NoOptions, FALSE,
                          NewMap, evaluateMetrics(metricRegistry, metricNames, context, demoTransforms))
  /\ UNCHANGED <<db, metricRegistry, cache, calls, prev, pf, app>>

RunQuery ==
  /\ calls = 0
  /\ last.op = "none"
  /\ \E options \in QueryOptions :
       last' = CallRecord("runQuery", "", <<>>, <<>>, options, FALSE, NewMap,
                          runQuery(metricRegistry, demoTransforms, options))
  /\ UNCHANGED <<db, metricRegistry, cache, calls, prev, pf, app>>

Next == EvaluateMetricFresh \/ EvaluateMetricHeld \/ DiscardCache \/ EvaluateMetrics \/ RunQuery

Spec == Init /\ [][Next]_vars

(***************************************************************************)
(* The same calls, with a caller that hands the cache it holds to a call   *)
(* made with another metric registry.                                      *)
(***************************************************************************)
SwapRegistry ==
  /\ calls > 0
  /\ calls < MaxCalls
  /\ last.op # "none"
  /\ metricRegistry' \in Registries \ {metricRegistry}
  /\ prev' = NoCall
  /\ last' = NoCall
  /\ UNCHANGED <<db, cache, calls, pf, app>>

NextReg == Next \/ SwapRegistry

SpecReg == Init /\ [][NextReg]_vars

(***************************************************************************)
(* The same calls, with a caller that, holding a cache in which its first  *)
(* call has just stored a value, asks for the same metric under the same   *)
(* context again through each entry point, without handing its cache over. *)
(***************************************************************************)
AfterHeldCall ==
  /\ calls = 1
  /\ last.op = "evaluateMetric"
  /\ last.held
  /\ last.res.ok
  /\ cacheKey(last.metricName, last.context) \notin DOMAIN last.before

EvaluateMetricAfter ==
  /\ AfterHeldCall
  /\ last' = CallRecord("evaluateMetric", last.metricName, <<>>, last.context, NoOptions,
                        FALSE, NewMap,
                        evaluateMetric(metricRegistry, last.metricName, last.context, demoTransforms, NewMap,
                                       <<>>, 1))
  /\ prev' = last
  /\ UNCHANGED <<db, metricRegistry, cache, calls, pf, app>>

EvaluateMetricsAfter ==
  /\ AfterHeldCall
  /\ last' = CallRecord("evaluateMetrics", "", <<last.metricName>>, last.context, NoOptions,
                        FALSE, NewMap,
                        evaluateMetrics(metricRegistry, <<last.metricName>>, last.context, demoTransforms))
  /\ prev' = last
  /\ UNCHANGED <<db, metricRegistry, cache, calls, pf, app>>

RunQueryAfter ==
  /\ AfterHeldCall
  /\ LET options == [rows |-> <<"regionId">>, filters |-> last.context,
                     metrics |-> <<last.metricName>>, factForRows |-> "sales"]
     IN last' = CallRecord("runQuery", "", <<>>, <<>>, options, FALSE, NewMap,
                           runQuery(metricRegistry, demoTransforms, options))
  /\ prev' = last
  /\ UNCHANGED <<db, metricRegistry, cache, calls, pf, app>>

NextAfter == Next \/ EvaluateMetricAfter \/ EvaluateMetricsAfter \/ RunQueryAfter

SpecAfter == Init /\ [][NextAfter]_vars

(***************************************************************************)
(* matchesFilter and applyContextToFact on their own, on inputs drawn from *)
(* bounded sets.                                                           *)
(***************************************************************************)
BoundNames == <<"from", "to", "gte", "lte", "gt", "lt">>

\* the range object with the bounds that `bounds` gives a value other than 0
RangeOf(bounds) ==
  Range([i \in 1..Len(SelectSeq(BoundNames, LAMBDA name : bounds[name] # 0)) |->
           LET name == SelectSeq(BoundNames, LAMBDA nm : bounds[nm] # 0)[i]
           IN <<name, Num(bounds[name])>>])

RangeFilters == {RangeOf(bounds) : bounds \in [SeqToSet(BoundNames) -> 0..MaxVal]}

CellValues == {Num(i) : i \in 0..(MaxVal + 1)} \cup {Undefined, Str("NA")}

FilterValues == RangeFilters \cup {Num(1), Str("NA")}

PureRow(year, month) ==
  IF month = 0 THEN << <<"year", Num(year)>> >>
  ELSE << <<"year", Num(year)>>, <<"month", Num(month)>> >>

PureRows == {PureRow(2024, 1), PureRow(2025, 1), PureRow(2025, 2), PureRow(2024, 0), PureRow(2025, 0)}

RowSequences == UNION {[1..n -> PureRows] : n \in 0..MaxRows}

\* the contexts a caller passes and the contexts ytd makes of them
PureContexts == Contexts \cup {ytd(ctx) : ctx \in Contexts}

PureGrains == {<<>>, <<"year">>, <<"month">>, <<"year", "month">>, <<"month", "regionId", "year">>}

InitPure ==
  /\ Init
  /\ db = demoDb
  /\ metricRegistry = demoMetrics

MatchesFilter ==
  /\ pf.fn = "none"
  /\ \E value \in CellValues, filter \in FilterValues :
       pf' = [fn |-> "matchesFilter", args |-> <<value, filter>>,
              result |-> matchesFilter(value, filter)]
  /\ UNCHANGED <<db, metricRegistry, cache, calls, prev, last, app>>

ApplyContextToFact ==
  /\ pf.fn = "none"
  /\ \E rows \in RowSequences, context \in PureContexts, grain \in PureGrains :
       pf' = [fn |-> "applyContextToFact", args |-> <<rows, context, grain>>,
              result |-> applyContextToFact(rows, context, grain)]
  /\ UNCHANGED <<db, metricRegistry, cache, calls, prev, last, app>>

\* a transform of the registry applied to a context
ApplyTransform ==
  /\ pf.fn = "none"
  /\ \E name \in Keys(demoTransforms), ctx \in PureContexts :
       pf' = [fn |-> name, args |-> <<ctx>>,
              result |-> CallTransform(Get(demoTransforms, name), ctx),
              input |-> ArgumentAfter(Get(demoTransforms, name), ctx),
              same |-> ReturnsArgument(Get(demoTransforms, name), ctx)]
  /\ UNCHANGED <<db, metricRegistry, cache, calls, prev, last, app>>

\* the caller is done with the result
DropResult ==
  /\ pf.fn # "none"
  /\ pf' = NoApplication
  /\ UNCHANGED <<db, metricRegistry, cache, calls, prev, last, app>>

NextPure == MatchesFilter \/ ApplyContextToFact \/ ApplyTransform \/ DropResult

SpecPure == InitPure /\ [][NextPure]_vars

(***************************************************************************)
(* The playground App: its mount effect and its handlers, each taken as a  *)
(* whole with the state updates it batches.                                *)
(***************************************************************************)
InitApp ==
  /\ db = demoDb
  /\ metricRegistry = demoMetrics
  /\ cache = EmptyCache
  /\ calls = 0
  /\ prev = NoCall
  /\ last = NoCall
  /\ pf = NoApplication
  /\ app \in {AppState(<<>>)} \cup {AppState(<<text>>) : text \in EditorTexts}

\* runPlaygroundQuery(request, overrides), durationMs being the time the
\* query took; a query that throws gives its error in place of the result
runPlaygroundQuery(request, overrides, durationMs) ==
  LET res == runQuery(buildMetricRegistry(overrides), demoTransforms, request)
  IN IF res.ok
     THEN [ok |-> TRUE, rows |-> res.val, durationMs |-> durationMs, message |-> NoError]
     ELSE [ok |-> FALSE, rows |-> <<>>, durationMs |-> Null, message |-> res.err]

\* the catch branch leaving the rows and the duration of the run before
runAndStore_KeepsResultOnError(a, request, result) ==
  IF result.ok
  THEN [a EXCEPT !.resultRows = result.rows, !.durationMs = result.durationMs,
                 !.lastRequest = request, !.error = NoError, !.isRunning = FALSE]
  ELSE [a EXCEPT !.error = result.message, !.lastRequest = request, !.isRunning = FALSE]

\* the state after runAndStore(request, overrides), result being what
\* runPlaygroundQuery returned or threw
runAndStore(a, request, result) ==
  IF result.ok
  THEN [a EXCEPT !.resultRows = result.rows, !.durationMs = result.durationMs,
                 !.lastRequest = request, !.error = NoError, !.isRunning = FALSE]
  ELSE [a EXCEPT !.resultRows = <<>>, !.durationMs = Null, !.error = result.message,
                 !.lastRequest = request, !.isRunning = FALSE]

\* runAndStore(req, overrides) on the state a, in the handler `event`
RunAndStore(a, req, overrides, event) ==
  /\ \E durationMs \in Durations :
       app' = [runAndStore(a, req, runPlaygroundQuery(req, overrides, durationMs))
                 EXCEPT !.event = event]
  /\ UNCHANGED <<db, metricRegistry, cache, calls, prev, last, pf>>

\* the effect run once after the first render
Mount ==
  /\ ~app.mounted
  /\ LET stored == app.storage
         mounted == [app EXCEPT !.mounted = TRUE]
     IN IF stored # <<>> /\ stored[1].text # ""
        THEN LET storedParse == validateMetricOverrides(stored[1])
                 edited == [mounted EXCEPT !.editorValue = stored[1]]
             IN IF storedParse.error = NoParseError
                THEN RunAndStore([edited EXCEPT !.activeOverrides = storedParse.definitions],
                                 snapshotRequest(defaultQueryRequest),
                                 storedParse.definitions, "mount")
                ELSE RunAndStore(edited, snapshotRequest(defaultQueryRequest), defaultParsed,
                                 "mount")
        ELSE RunAndStore([mounted EXCEPT !.storage = <<app.editorValue>>],
                         snapshotRequest(defaultQueryRequest), defaultParsed, "mount")

\* the editor's onChange: setEditorValue, and the effect that stores the text
ChangeEditor ==
  /\ app.mounted
  /\ \E text \in EditorTexts \ {app.editorValue} :
       app' = [app EXCEPT !.editorValue = text, !.storage = <<text>>, !.event = "edit"]
  /\ UNCHANGED <<db, metricRegistry, cache, calls, prev, last, pf>>

\* the query builder's onChange: setQueryState
ChangeQuery ==
  /\ app.mounted
  /\ \E request \in PlaygroundRequests \ {app.queryState} :
       app' = [app EXCEPT !.queryState = request, !.event = "query"]
  /\ UNCHANGED <<db, metricRegistry, cache, calls, prev, last, pf>>

handleRun ==
  /\ app.mounted
  /\ RunAndStore(app, snapshotRequest(app.queryState), app.activeOverrides, "run")

\* if (parsed.error) return
CanApply(parsed) == parsed.error = NoParseError

handleApplyOverrides ==
  /\ app.mounted
  /\ LET parsed == validateMetricOverrides(app.editorValue)
     IN IF CanApply(parsed)
        THEN RunAndStore([app EXCEPT !.activeOverrides = parsed.definitions],
                         snapshotRequest(app.queryState), parsed.definitions, "apply")
        ELSE /\ app' = [app EXCEPT !.event = "apply"]
             /\ UNCHANGED <<db, metricRegistry, cache, calls, prev, last, pf>>

handleResetEditor ==
  /\ app.mounted
  /\ RunAndStore([app EXCEPT !.editorValue = defaultMetricEditorText,
                              !.storage = <<defaultMetricEditorText>>,
                              !.activeOverrides = defaultParsed],
                 snapshotRequest(app.queryState), defaultParsed, "reset")

NextApp ==
  Mount \/ ChangeEditor \/ ChangeQuery \/ handleRun \/ handleApplyOverrides
    \/ handleResetEditor

SpecApp == InitApp /\ [][NextApp]_vars

(***************************************************************************)
(* Properties of matchesFilter and applyContextToFact (SpecPure).          *)
(***************************************************************************)
\* what a bound named `name` with value `bound` asks of `value`
BoundSatisfied(name, value, bound) ==
  CASE name \in {"from", "gte"} -> LessEq(bound, value)
    [] name \in {"to", "lte"} -> LessEq(value, bound)
    [] name = "gt" -> Less(bound, value)
    [] OTHER -> Less(value, bound)

EveryBoundSatisfied(value, filter) ==
  \A i \in 1..Len(filter.b) : BoundSatisfied(filter.b[i][1], value, filter.b[i][2])

\* C7: for a range filter and a numeric value, matchesFilter returns true iff
\* every bound the filter carries is satisfied (from, to, gte, lte inclusive;
\* gt, lt exclusive), from/to being enforced together with the other four; a
\* range with no bound matches every value.
C7_EveryPresentBoundChecked ==
  (pf.fn = "matchesFilter" /\ pf.args[2].t = "range" /\ pf.args[1].t = "num")
    => (pf.result <=> EveryBoundSatisfied(pf.args[1], pf.args[2]))

\* the rows that satisfy every context entry whose filter is not null or
\* undefined and whose key is in the grain
RowsMatchingAll(rows, context, grain) ==
  SelectSeq(rows, LAMBDA r :
    \A i \in 1..Len(context) :
      (~IsNullish(context[i][2]) /\ context[i][1] \in SeqToSet(grain))
        => matchesFilter(Get(r, context[i][1]), context[i][2]))

\* the same entries in another insertion order
Reorderings(obj) ==
  {[i \in 1..Len(obj) |-> obj[p[i]]] :
     p \in {q \in [1..Len(obj) -> 1..Len(obj)] : \A i, j \in 1..Len(obj) : q[i] = q[j] => i = j}}

\* C8: applyContextToFact yields exactly the input rows, in input order, that
\* match every context entry whose filter is neither null nor undefined and
\* whose key is in the grain; the other entries impose nothing, and the
\* insertion order of the context keys does not change the result.
C8_ConjunctiveGrainFilter ==
  pf.fn = "applyContextToFact" =>
    /\ pf.result = RowsMatchingAll(pf.args[1], pf.args[2], pf.args[3])
    /\ \A other \in Reorderings(pf.args[2]) :
         applyContextToFact(pf.args[1], other, pf.args[3]) = pf.result

\* two entries narrow the rows, a null filter on a grain key and a filter on
\* a key outside the grain are passed over
C8_Witness ==
  /\ pf.fn = "applyContextToFact"
  /\ pf.args[1] = <<PureRow(2024, 1), PureRow(2025, 1)>>
  /\ pf.args[2] = << <<"regionId", Str("NA")>>, <<"month", Null>>, <<"year", Num(2025)>> >>
  /\ pf.args[3] = <<"year", "month">>
  /\ pf.result = <<PureRow(2025, 1)>>

(***************************************************************************)
(* Properties of the evaluator (Spec).                                     *)
(***************************************************************************)
\* evaluateMetric on its own, with a new cache
Evaluate(metricName, context) ==
  evaluateMetric(metricRegistry, metricName, context, demoTransforms, EmptyCache, <<>>, 1)

Outcome(res) == <<res.ok, res.val, res.err>>

IsEvaluateMetric(call) == call.op = "evaluateMetric"

Registered(metricName) == metricName \in DOMAIN metricRegistry

\* the events of a log with a given tag and depth
Events(log, tag, depth) == SelectSeq(log, LAMBDA e : e[1] = tag /\ e[2] = depth)

(***************************************************************************)
(* C1                                                                      *)
(***************************************************************************)
\* C1: for every group runQuery produces, every requested metric is
\* evaluated with the row context (filters overridden by the group's
\* dimension values) as context and the caller's transforms as transforms,
\* and the group's output row holds formatValue of that evaluation.
C1_MetricsEvaluatedUnderRowContext ==
  (last.op = "runQuery" /\ last.res.ok) =>
    LET options == last.options
        groups == GroupBy(FilteredRows(options), options.rows)
    IN /\ Len(last.res.val) = Len(groups)
       /\ \A g \in 1..Len(groups) : \A i \in 1..Len(options.metrics) :
            LET m == options.metrics[i]
                ref == Evaluate(m, RowContext(options.filters, groups[g].key))
            IN /\ ref.ok
               /\ Get(last.res.val[g], m) = formatValue(ref.val, metricRegistry[m].format)
       /\ \A k \in 1..Len(last.res.log) :
            (last.res.log[k][1] = "call" /\ last.res.log[k][2] = 1) =>
              \E g \in 1..Len(groups) :
                last.res.log[k][4] = RowContext(options.filters, groups[g].key)

(***************************************************************************)
(* C2                                                                      *)
(***************************************************************************)
\* the keys of a fact-measure metric's effective grain
GrainOf(def) == SeqToSet(EffectiveGrain(def, demoFactTables[def.factTable]))

AgreeOn(keys, c1, c2) == \A k \in keys : Get(c1, k) = Get(c2, k)

IsFactMeasure(metricName) ==
  /\ Registered(metricName)
  /\ metricRegistry[metricName].kind = "factMeasure"
  /\ metricRegistry[metricName].factTable \in DOMAIN demoFactTables

\* C2: a fact-measure metric evaluated with a new cache under two contexts
\* that agree on every key of its effective grain gives the same result.
C2_GrainProperty ==
  (IsEvaluateMetric(last) /\ ~last.held /\ IsFactMeasure(last.metricName)) =>
    \A other \in Contexts :
      AgreeOn(GrainOf(metricRegistry[last.metricName]), last.context, other)
        => Outcome(Evaluate(last.metricName, other)) = Outcome(last.res)

\* salesAmountYearRegion under a context whose month filter, were it applied,
\* would leave other rows
C2_Witness ==
  /\ IsEvaluateMetric(last) /\ ~last.held
  /\ last.metricName = "salesAmountYearRegion"
  /\ last.context = << <<"year", Num(2025)>>, <<"month", Num(2)>>, <<"regionId", Str("NA")>> >>
  /\ last.res.ok
  /\ last.res.val = Sum(applyContextToFact(db["sales"], last.context, <<"year", "regionId">>), "amount")
  /\ last.res.val # Sum(applyContextToFact(db["sales"], last.context, <<"year", "month", "regionId">>), "amount")

(***************************************************************************)
(* C3                                                                      *)
(***************************************************************************)
IsContextTransform(metricName) ==
  /\ Registered(metricName)
  /\ metricRegistry[metricName].kind = "contextTransform"
  /\ Has(demoTransforms, metricRegistry[metricName].transform)

\* f(C) for the transform f of a context-transform metric
Shifted(metricName, context) ==
  CallTransform(Get(demoTransforms, metricRegistry[metricName].transform), context)

CachedAs(c, metricName, context, value) ==
  /\ cacheKey(metricName, context) \in DOMAIN c
  /\ c[cacheKey(metricName, context)] = value

\* C3: evaluating a context-transform metric T under C gives what evaluating
\* its base metric B under f(C) gives, and afterwards the cache holds that
\* value under (T, C) and under (B, f(C)).
C3_ContextTransformComposition ==
  (IsEvaluateMetric(last) /\ IsContextTransform(last.metricName)) =>
    LET baseMeasure == metricRegistry[last.metricName].baseMeasure
        shifted == Shifted(last.metricName, last.context)
        base == evaluateMetric(metricRegistry, baseMeasure, shifted, demoTransforms, last.before, <<>>, 1)
    IN /\ Outcome(last.res) = Outcome(base)
       /\ last.res.ok =>
            /\ CachedAs(last.res.cache, last.metricName, last.context, last.res.val)
            /\ CachedAs(last.res.cache, baseMeasure, shifted, last.res.val)

\* a year-to-date metric whose value is not the value of its base metric
\* under the context as it came in
C3_Witness ==
  /\ IsEvaluateMetric(last)
  /\ last.metricName = "salesAmountYTD"
  /\ last.context = << <<"year", Num(2025)>>, <<"month", Num(2)>> >>
  /\ last.res.ok
  /\ last.res.val.t = "num"
  /\ last.res.val # Evaluate("totalSalesAmount", last.context).val
  /\ CachedAs(last.res.cache, "totalSalesAmount", ytd(last.context), last.res.val)

(***************************************************************************)
(* C4                                                                      *)
(***************************************************************************)
IsDerived(metricName) ==
  Registered(metricName) /\ metricRegistry[metricName].kind = "derived"

\* C4: a derived metric's value is its combinator applied to the values its
\* dependencies have when each is evaluated on its own under the same
\* context; on a cache miss the dependencies are evaluated in listed order,
\* each under the unmodified context and through the same cache.
C4_DerivedComposition ==
  (IsEvaluateMetric(last) /\ IsDerived(last.metricName) /\ last.res.ok) =>
    LET deps == metricRegistry[last.metricName].dependencies
        alone == [i \in 1..Len(deps) |-> Evaluate(deps[i], last.context)]
        depValues == [i \in 1..Len(deps) |-> <<deps[i], alone[i].val>>]
        entered == Events(last.res.log, "call", 2)
    IN /\ \A i \in 1..Len(deps) : alone[i].ok
       /\ last.res.val = ratioPct(depValues, deps)
       /\ cacheKey(last.metricName, last.context) \notin DOMAIN last.before =>
            /\ Len(entered) = Len(deps)
            /\ \A i \in 1..Len(deps) :
                 /\ entered[i][3] = deps[i]
                 /\ entered[i][4] = last.context
                 /\ CachedAs(last.res.cache, deps[i], last.context, alone[i].val)

\* a derived metric computed on a miss, under a context that narrows its
\* dependencies
C4_Witness ==
  /\ IsEvaluateMetric(last)
  /\ last.metricName = "salesVsBudgetPct"
  /\ last.context = << <<"month", Num(2)>>, <<"year", Num(2025)>> >>
  /\ cacheKey(last.metricName, last.context) \notin DOMAIN last.before
  /\ last.res.ok
  /\ last.res.val.t = "num"
  /\ Evaluate("totalSalesAmount", last.context).val # Evaluate("totalSalesAmount", <<>>).val

(***************************************************************************)
(* C5 and C6                                                               *)
(***************************************************************************)
\* two calls in a row through the cache the caller holds, for one metric
TwiceThroughOneCache ==
  /\ IsEvaluateMetric(prev) /\ prev.held
  /\ IsEvaluateMetric(last) /\ last.held
  /\ prev.metricName = last.metricName
  /\ prev.res.ok

\* C5: two contexts with the same key/value pairs in different insertion
\* orders have the same cache key, so the evaluation under the second hits
\* the entry stored under the first.
C5_CacheKeyOrderIndependent ==
  (TwiceThroughOneCache /\ SeqToSet(prev.context) = SeqToSet(last.context)) =>
    /\ cacheKey(last.metricName, last.context) = cacheKey(prev.metricName, prev.context)
    /\ Events(last.res.log, "hit", 1) # <<>>

Computes(log, metricName, context) ==
  SelectSeq(log, LAMBDA e : e[1] = "compute" /\ e[3] = metricName /\ e[4] = context)

\* C6: the second of two evaluations of one (metric, context) pair through
\* one cache returns the value of the first, null included, without computing
\* anything; over the two calls the aggregation, expression or combinator of
\* the pair ran once (a context-transform metric has none of its own), and
\* nothing was computed twice.
C6_Idempotence ==
  (TwiceThroughOneCache /\ prev.context = last.context) =>
    /\ last.res.ok
    /\ last.res.val = prev.res.val
    /\ last.res.log = << <<"call", 1, last.metricName, last.context>>,
                         <<"hit", 1, last.metricName, last.context>> >>
    /\ last.res.cache = last.before
    /\ cacheKey(prev.metricName, prev.context) \notin DOMAIN prev.before =>
         LET both == prev.res.log \o last.res.log
         IN /\ \A i \in 1..Len(both) :
                 both[i][1] = "compute" => Len(Computes(both, both[i][3], both[i][4])) = 1
            /\ metricRegistry[prev.metricName].kind # "contextTransform"
                 => Len(Computes(both, prev.metricName, prev.context)) = 1

\* the value computed, stored and returned again is null
C6_Witness ==
  /\ TwiceThroughOneCache
  /\ prev.context = last.context
  /\ cacheKey(prev.metricName, prev.context) \notin DOMAIN prev.before
  /\ prev.res.val = Null
  /\ last.res.ok
  /\ last.res.val = Null

(***************************************************************************)
(* C9 (SpecReg) and C10                                                    *)
(***************************************************************************)
UnknownMetric(call) ==
  /\ ~call.res.ok
  /\ call.res.err = <<"Unknown metric", call.metricName>>
  /\ call.res.val = Undefined

\* C9 as stated: evaluateMetric fails with the unknown-metric error for a name
\* absent from the registry, whatever the context and the cache passed in.
C9_UnknownMetricWhateverTheCache ==
  (IsEvaluateMetric(last) /\ ~Registered(last.metricName)) => UnknownMetric(last)

\* C9 as amended: for a name absent from the registry evaluateMetric fails
\* with the unknown-metric error, leaving the cache as it was, whenever the
\* cache passed in has no entry under the key of (name, context); when it has
\* one, that entry is returned.
C9_UnknownMetricOnCacheMiss ==
  (IsEvaluateMetric(last) /\ ~Registered(last.metricName)) =>
    IF cacheKey(last.metricName, last.context) \in DOMAIN last.before
    THEN /\ last.res.ok
         /\ last.res.val = Coalesce(last.before[cacheKey(last.metricName, last.context)], Null)
    ELSE UnknownMetric(last) /\ last.res.cache = last.before

\* an unregistered name asked through a cache that holds other entries
C9_Witness ==
  /\ IsEvaluateMetric(last) /\ last.held
  /\ ~Registered(last.metricName)
  /\ last.before # EmptyCache
  /\ cacheKey(last.metricName, last.context) \notin DOMAIN last.before
  /\ UnknownMetric(last)

\* the error a definition's dangling reference is to raise, NoError if none
DanglingReference(def) ==
  IF def.kind \in {"factMeasure", "expression"}
  THEN IF def.factTable \notin DOMAIN demoFactTables
       THEN <<"Unknown fact table", def.factTable>>
       ELSE IF def.factTable \notin DOMAIN db
       THEN <<"Missing rows for fact table", def.factTable>>
       ELSE IF def.kind = "expression" THEN NoError
       ELSE IF def.factColumn \notin DOMAIN demoFactTables[def.factTable].measures
       THEN <<"Unknown fact column", def.factColumn>>
       ELSE LET agg == IF def.agg = ""
                       THEN demoFactTables[def.factTable].measures[def.factColumn].defaultAgg
                       ELSE def.agg
            IN IF agg \notin {"sum", "avg", "count"}
               THEN <<"Unsupported aggregation", agg>> ELSE NoError
  ELSE IF def.kind = "contextTransform" /\ ~Has(demoTransforms, def.transform)
  THEN <<"Unknown context transform", def.transform>>
  ELSE NoError

\* the k-th event of the log is a call that missed the cache
EnteredOnMiss(log, k) ==
  /\ log[k][1] = "call"
  /\ ~(k < Len(log) /\ log[k + 1][1] = "hit")

\* C10: when a registered metric reached on a cache miss names a fact table
\* absent from the fact table registry or without rows in the database, a
\* measure absent from its table (whatever its aggregation), a transform
\* absent from the transform registry or an aggregation outside sum, avg,
\* count, evaluateMetric fails with the matching error and returns no value.
C10_DanglingReferenceFails ==
  IsEvaluateMetric(last) =>
    \A k \in 1..Len(last.res.log) :
      (/\ EnteredOnMiss(last.res.log, k)
       /\ Registered(last.res.log[k][3])
       /\ DanglingReference(metricRegistry[last.res.log[k][3]]) # NoError)
      => /\ ~last.res.ok
         /\ last.res.val = Undefined
         /\ last.res.err = DanglingReference(metricRegistry[last.res.log[k][3]])

\* a count over a measure the table does not have
C10_Witness ==
  /\ IsEvaluateMetric(last)
  /\ last.metricName = "marginCount"
  /\ Registered("marginCount")
  /\ metricRegistry["marginCount"].agg = "count"
  /\ ~last.res.ok
  /\ last.res.err = <<"Unknown fact column", "margin">>

(***************************************************************************)
(* C11                                                                     *)
(***************************************************************************)
\* a top-level call of evaluateMetrics, or of runQuery on a loaded fact table
IsEvaluateMetrics(call) == call.op = "evaluateMetrics"

IsRunQuery(call) == call.op = "runQuery" /\ call.options.factForRows \in DOMAIN db

RequestedNames(call) ==
  SeqToSet(IF call.op = "runQuery" THEN call.options.metrics ELSE call.metricNames)

\* the dependencies and the base metric a registered metric names
References(metricName) ==
  IF ~Registered(metricName) THEN {}
  ELSE SeqToSet(metricRegistry[metricName].dependencies) \cup
       (IF metricRegistry[metricName].kind = "contextTransform"
        THEN {metricRegistry[metricName].baseMeasure} ELSE {})

RECURSIVE ReachedWithin(_, _)
ReachedWithin(names, steps) ==
  IF steps = 0 THEN names
  ELSE ReachedWithin(names \cup UNION {References(m) : m \in names}, steps - 1)

\* the requested names and every dependency or base metric they reach
Reached(call) == ReachedWithin(RequestedNames(call), MaxDepth)

ReachesUnknownMetric(call) ==
  /\ IsEvaluateMetrics(call) \/ IsRunQuery(call)
  /\ \E m \in Reached(call) : ~Registered(m)

\* the only references of the call that do not resolve are metric names
OnlyMetricNamesUnresolved(call) ==
  \A m \in Reached(call) :
    Registered(m) =>
      /\ DanglingReference(metricRegistry[m]) = NoError
      /\ call.op = "runQuery" => metricRegistry[m].kind # "contextTransform"

FailsWithUnknownMetric(call) ==
  /\ ~call.res.ok
  /\ call.res.val = Undefined
  /\ call.res.err[1] = "Unknown metric"
  /\ call.res.err[2] \in Reached(call)
  /\ ~Registered(call.res.err[2])

LastEntered(log) == Events(log, "call", 1)[Len(Events(log, "call", 1))][3]

NoGroups(call) ==
  call.op = "runQuery" /\ GroupBy(FilteredRows(call.options), call.options.rows) = <<>>

C12_UnknownFactForRowsFails ==
  (last.op = "runQuery"
     /\ (\/ last.options.factForRows \notin DOMAIN demoFactTables
         \/ last.options.factForRows \notin DOMAIN db)) =>
    /\ ~last.res.ok
    /\ last.res.val = Undefined
    /\ last.res.err = <<"Unknown fact table", last.options.factForRows>>
    /\ last.res.log = <<>>

(***************************************************************************)
(* C13                                                                     *)
(***************************************************************************)
\* the fact rows of the query that satisfy every non-null base filter
RowsHonoringFilters(options) ==
  RowsMatchingAll(db[options.factForRows], options.filters,
                  [i \in 1..Len(options.filters) |-> options.filters[i][1]])

\* the dimension values of the output rows, in output order
OutputKeys(call) ==
  [i \in 1..Len(call.res.val) |-> pick(call.res.val[i], call.options.rows)]

\* the keys of the groups that `rows` form, in the order groupBy gives them
GroupKeys(rows, rowDims) ==
  [i \in 1..Len(GroupBy(rows, rowDims)) |-> JsonParse(GroupBy(rows, rowDims)[i].key)]

\* C13: the rows runQuery groups are exactly the fact rows that satisfy
\* every non-null entry of options.filters, also when the first row of the
\* table lacks a column a filter names: the output has one row for each
\* group those rows form.
C13_AllBaseFiltersHonored ==
  (IsRunQuery(last) /\ last.res.ok) =>
    OutputKeys(last) = GroupKeys(RowsHonoringFilters(last.options), last.options.rows)

(***************************************************************************)
(* C14                                                                     *)
(***************************************************************************)
\* the projection of a row onto the row dimensions: each dimension with the
\* row's value for it, undefined where the row has none
Projection(r, rowDims) == [d \in SeqToSet(rowDims) |-> Get(r, d)]

\* C14: runQuery returns as many rows as the base-filtered fact rows have
\* distinct projections onto options.rows, and the dimension fields of the
\* output rows are those projections, each once.
C14_PivotGrouping ==
  (IsRunQuery(last) /\ last.res.ok) =>
    LET rowDims == last.options.rows
        projections == {Projection(r, rowDims) : r \in SeqToSet(FilteredRows(last.options))}
        out == last.res.val
    IN /\ Len(out) = Cardinality(projections)
       /\ \A i \in 1..Len(out) : Projection(out[i], rowDims) \in projections
       /\ \A i, j \in 1..Len(out) :
            Projection(out[i], rowDims) = Projection(out[j], rowDims) => i = j

\* several fact rows fall into each of several groups
C14_Witness ==
  /\ IsRunQuery(last)
  /\ last.res.ok
  /\ last.options.rows = <<"regionId">>
  /\ Len(last.res.val) = 2
  /\ Len(FilteredRows(last.options)) > 3

(***************************************************************************)
(* C15                                                                     *)
(***************************************************************************)
\* the same row object with its columns in other orders: reversed and rotated
ColumnOrders(r) ==
  {[i \in 1..Len(r) |-> r[Len(r) + 1 - i]]} \cup
  {[i \in 1..Len(r) |-> r[((i + k - 1) % Len(r)) + 1]] : k \in 0..(Len(r) - 1)}

\* the group key runQuery gives a row
GroupKeyOf(r, rowDims) == JsonStringify(pick(r, rowDims))

\* C15: every base-filtered row lands in a group, also when it has no value
\* for a row dimension; two rows land in the same group iff they have the
\* same value or the same absence for every row dimension; the key of a row
\* is the same for every order of the columns inside the row.
C15_GroupingKeepsEveryRow ==
  (IsRunQuery(last) /\ last.res.ok) =>
    LET rowDims == last.options.rows
        filtered == FilteredRows(last.options)
        groups == GroupBy(filtered, rowDims)
        GroupsOf(r) == {i \in 1..Len(groups) : r \in SeqToSet(groups[i].rows)}
    IN /\ \A r \in SeqToSet(filtered) :
            /\ Cardinality(GroupsOf(r)) = 1
            /\ \E i \in 1..Len(last.res.val) :
                 Projection(last.res.val[i], rowDims) = Projection(r, rowDims)
            /\ \A other \in ColumnOrders(r) : GroupKeyOf(other, rowDims) = GroupKeyOf(r, rowDims)
       /\ \A r1, r2 \in SeqToSet(filtered) :
            (GroupsOf(r1) = GroupsOf(r2)) <=> (Projection(r1, rowDims) = Projection(r2, rowDims))

\* rows without a month are grouped, apart from the rows that have one, and
\* two rows with their columns in different orders share a group
C15_Witness ==
  /\ IsRunQuery(last)
  /\ last.res.ok
  /\ last.options.rows = <<"year", "month">>
  /\ \E i \in 1..Len(last.res.val) :
       ~Has(last.res.val[i], "month") /\ Has(last.res.val[i], "year")
  /\ \E i \in 1..Len(last.res.val) : Has(last.res.val[i], "month")
  /\ \E r1, r2 \in SeqToSet(FilteredRows(last.options)) :
       /\ r1 # r2
       /\ [i \in 1..Len(r1) |-> r1[i][1]] # [i \in 1..Len(r2) |-> r2[i][1]]
       /\ Keys(r1) = Keys(r2)
       /\ GroupKeyOf(r1, last.options.rows) = GroupKeyOf(r2, last.options.rows)

(***************************************************************************)
(* C16                                                                     *)
(***************************************************************************)
\* the place in `rows` of the first row with the projection of `r`
FirstEncounter(r, rows, rowDims) ==
  CHOOSE k \in 1..Len(rows) :
    /\ Projection(rows[k], rowDims) = Projection(r, rowDims)
    /\ \A n \in 1..(k - 1) : Projection(rows[n], rowDims) # Projection(r, rowDims)

\* C16: the output rows of runQuery come in the order in which their groups
\* are first met in the base-filtered fact rows.
C16_FirstEncounterOrder ==
  (IsRunQuery(last) /\ last.res.ok) =>
    LET rowDims == last.options.rows
        filtered == FilteredRows(last.options)
        out == last.res.val
    IN /\ \A i \in 1..Len(out) :
            \E k \in 1..Len(filtered) :
              Projection(filtered[k], rowDims) = Projection(out[i], rowDims)
       /\ \A i, j \in 1..Len(out) :
            i < j => FirstEncounter(out[i], filtered, rowDims)
                       < FirstEncounter(out[j], filtered, rowDims)

\* NA is met first and comes out first, with rows of EU met before the last
\* row of NA
C16_Witness ==
  /\ IsRunQuery(last)
  /\ last.res.ok
  /\ last.options.rows = <<"regionId">>
  /\ Len(last.res.val) = 2
  /\ Get(last.res.val[1], "regionId") = Str("NA")
  /\ Get(last.res.val[2], "regionId") = Str("EU")
  /\ LET filtered == FilteredRows(last.options)
     IN \E k, n \in 1..Len(filtered) :
          /\ k < n
          /\ Get(filtered[k], "regionId") = Str("EU")
          /\ Get(filtered[n], "regionId") = Str("NA")

(***************************************************************************)
(* C17                                                                     *)
(***************************************************************************)
\* the k-th event of the log is the first time its (metric, context) pair is
\* entered
FirstEntry(log, k) ==
  \A n \in 1..(k - 1) :
    ~(log[n][1] = "call" /\ log[n][3] = log[k][3] /\ log[n][4] = log[k][4])

\* the context the n-th requested metric of the i-th group was evaluated under
ContextEvaluated(call, i, n) ==
  Events(call.res.log, "call", 1)[(i - 1) * Len(call.options.metrics) + n][4]

\* C17: in one runQuery call every (metric, context) pair met, dependencies
\* and base metrics included, is computed at most once: the first time it is
\* entered it misses the cache, every later time it hits, and the groups that
\* evaluate a metric under one context get one value.
C17_OneCachePerQuery ==
  (IsRunQuery(last) /\ last.res.ok) =>
    LET log == last.res.log
        out == last.res.val
        metrics == last.options.metrics
    IN /\ \A k \in 1..Len(log) :
            /\ log[k][1] = "call" => (EnteredOnMiss(log, k) <=> FirstEntry(log, k))
            /\ log[k][1] = "compute" => Len(Computes(log, log[k][3], log[k][4])) = 1
       /\ Len(Events(log, "call", 1)) = Len(out) * Len(metrics)
       /\ \A i, j \in 1..Len(out) : \A n \in 1..Len(metrics) :
            ContextEvaluated(last, i, n) = ContextEvaluated(last, j, n)
              => Get(out[i], metrics[n]) = Get(out[j], metrics[n])

\* a pivot over several groups with a derived metric and one of its
\* dependencies: three computations, the rest are hits
C17_Witness ==
  /\ IsRunQuery(last)
  /\ last.res.ok
  /\ last.options.metrics = <<"salesVsBudgetPct", "totalSalesAmount">>
  /\ Len(last.res.val) > 1
  /\ Len(SelectSeq(last.res.log, LAMBDA e : e[1] = "compute")) = 3
  /\ Len(Events(last.res.log, "hit", 1)) = 2 * Len(last.res.val) - 1

(***************************************************************************)
(* C18 (SpecAfter)                                                         *)
(***************************************************************************)
\* a top-level call made without a cache argument
FreshCall(call) == call.op # "none" /\ ~call.held

\* what the call gives when nothing was ever called before it
FromScratch(call) ==
  CASE call.op = "evaluateMetric" ->
         evaluateMetric(metricRegistry, call.metricName, call.context, demoTransforms, EmptyCache, <<>>, 1)
    [] call.op = "evaluateMetrics" ->
         evaluateMetricsLoop(metricRegistry, call.metricNames, <<>>, call.context, demoTransforms,
                             EmptyCache, <<>>)
    [] OTHER ->
         IF call.options.factForRows \notin DOMAIN db
         THEN Thrown("Unknown fact table", call.options.factForRows, EmptyCache, <<>>)
         ELSE groupsLoop(metricRegistry, GroupBy(FilteredRows(call.options), call.options.rows), <<>>,
                         call.options, demoTransforms, EmptyCache, <<>>)

C19_EvaluateMetricsPointwise ==
  IsEvaluateMetrics(last) =>
    LET names == SeqToSet(last.metricNames)
        alone == [n \in names |-> Evaluate(n, last.context)]
    IN /\ last.res.ok <=> \A n \in names : alone[n].ok
       /\ last.res.ok =>
            /\ Keys(last.res.val) = names
            /\ Len(last.res.val) = Cardinality(names)
            /\ \A n \in names : Get(last.res.val, n) = alone[n].val

\* a derived metric asked for before one of its dependencies, which is then
\* served from the shared cache
C19_Witness ==
  /\ IsEvaluateMetrics(last)
  /\ last.metricNames = <<"salesVsBudgetPct", "totalSalesAmount">>
  /\ last.context # <<>>
  /\ last.res.ok
  /\ Len(last.res.val) = 2
  /\ Get(last.res.val, "salesVsBudgetPct").t = "num"
  /\ Events(last.res.log, "hit", 1) # <<>>

(***************************************************************************)
(* C20 (SpecPure)                                                          *)
(***************************************************************************)
\* C20: for every context C, ytdLastYear(C) is ytd(lastYear(C)) and is
\* lastYear(ytd(C)): the year is decremented whenever there is one, and the
\* month becomes the bound {lte: month} whenever year and month are there.
C20_YtdLastYearIsComposition ==
  pf.fn = "ytdLastYear" =>
    /\ pf.result = ytd(lastYear(pf.args[1]))
    /\ pf.result = lastYear(ytd(pf.args[1]))

GrainFilteredRows(metricName, context) ==
  LET def == metricRegistry[metricName]
  IN applyContextToFact(db[def.factTable], context,
                        EffectiveGrain(def, demoFactTables[def.factTable]))

\* a fact-measure metric whose table, rows, measure and aggregation resolve
Aggregates(metricName, agg) ==
  /\ IsFactMeasure(metricName)
  /\ DanglingReference(metricRegistry[metricName]) = NoError
  /\ LET def == metricRegistry[metricName]
     IN EffectiveAgg(def, demoFactTables[def.factTable].measures[def.factColumn]) = agg

\* C23: a fact-measure metric evaluated with a new cache under a context
\* that no row of its table matches on its effective grain gives 0 when its
\* effective aggregation is sum and 0 when it is count.
C23_EmptyRowSetSumAndCount ==
  (/\ IsEvaluateMetric(last) /\ ~last.held
   /\ \/ Aggregates(last.metricName, "sum")
      \/ Aggregates(last.metricName, "count")
   /\ GrainFilteredRows(last.metricName, last.context) = <<>>) =>
    /\ last.res.ok
    /\ last.res.val = Num(0)

C23_Witness ==
  /\ IsEvaluateMetric(last) /\ ~last.held
  /\ Aggregates(last.metricName, "count")
  /\ db[metricRegistry[last.metricName].factTable] # <<>>
  /\ GrainFilteredRows(last.metricName, last.context) = <<>>
  /\ last.res.val = Num(0)

(***************************************************************************)
(* C24                                                                     *)
(***************************************************************************)
\* salesAmountYearRegion of the demo registry evaluated with a new cache on
\* the demo database under {year: 2025, month: 2, regionId: "NA"}, the keys
\* in any order
DemoYearRegionCall ==
  /\ IsEvaluateMetric(last) /\ ~last.held
  /\ db = demoDb
  /\ metricRegistry = demoMetrics
  /\ last.metricName = "salesAmountYearRegion"
  /\ Len(last.context) = 3
  /\ Get(last.context, "year") = Num(2025)
  /\ Get(last.context, "month") = Num(2)
  /\ Get(last.context, "regionId") = Str("NA")

\* the demo sales rows of NA in 2025, whatever their month
FullYearNA2025 ==
  SelectSeq(demoDb["sales"],
            LAMBDA r : Get(r, "year") = Num(2025) /\ Get(r, "regionId") = Str("NA"))

\* C24 as stated: the evaluation returns 1950.
C24_YearRegionTotalIs1950 ==
  DemoYearRegionCall => (last.res.ok /\ last.res.val = Num(1950))

\* C24 as amended: the evaluation ignores the month filter and returns the
\* total of the amounts of all 2025 NA sales rows, which is
\* 1000 + 600 + 950 = 2550.
C24_YearRegionTotalIs2550 ==
  DemoYearRegionCall =>
    /\ last.res.ok
    /\ last.res.val = Sum(FullYearNA2025, "amount")
    /\ last.res.val = Num(2550)

C24_Witness ==
  /\ DemoYearRegionCall
  /\ Len(FullYearNA2025) = 3
  /\ last.res.val = Num(2550)

(***************************************************************************)
(* C25                                                                     *)
(***************************************************************************)
\* the arithmetic sum of the cells of a column that hold a number
RECURSIVE SumOfNumericCells(_, _)
SumOfNumericCells(q, col) ==
  IF q = <<>> THEN Num(0)
  ELSE NumAdd(IF Get(Head(q), col).t = "num" THEN Get(Head(q), col) ELSE Num(0),
              SumOfNumericCells(Tail(q), col))

\* C25: the sum aggregation of a fact-measure metric counts every absent,
\* null or non-numeric cell as 0: the value is the arithmetic sum of the
\* numeric cells of the measure column over the grain-filtered rows.
C25_SumCountsNonNumericAsZero ==
  (IsEvaluateMetric(last) /\ ~last.held /\ Aggregates(last.metricName, "sum")) =>
    LET def == metricRegistry[last.metricName]
        col == demoFactTables[def.factTable].measures[def.factColumn].column
    IN /\ last.res.ok
       /\ last.res.val = SumOfNumericCells(GrainFilteredRows(last.metricName, last.context), col)

(***************************************************************************)
(* C26                                                                     *)
(***************************************************************************)
\* every entry of cache c is in cache d with the value it has in c
KeepsEntries(c, d) == \A k \in DOMAIN c : k \in DOMAIN d /\ d[k] = c[k]

StackExhausted == <<"Maximum call stack size exceeded", "">>

\* the names reached from a metric through dependency and base-metric edges
ReachedFrom(metricName) ==
  ReachedWithin({metricName}, Cardinality(DOMAIN metricRegistry))

\* the metric reaches itself through at least one edge
CanReachItself(metricName) ==
  \E r \in References(metricName) : metricName \in ReachedFrom(r)

\* no metric reached from the metric reaches itself
Acyclic(metricName) == \A m \in ReachedFrom(metricName) : ~CanReachItself(m)

\* the metric the evaluation had entered when it failed
FailedIn(res) == res.log[Len(res.log)][3]

\* the error of a reference of the metric that does not resolve
Unresolved(metricName) ==
  IF ~Registered(metricName) THEN <<"Unknown metric", metricName>>
  ELSE DanglingReference(metricRegistry[metricName])

\* the (metric, context) pairs entered more than once on a miss
Reentered(log) ==
  {<<log[i][3], log[i][4]>> : i \in {j \in 1..Len(log) : EnteredOnMiss(log, j) /\
      \E k \in 1..(j - 1) : EnteredOnMiss(log, k) /\ log[k][3] = log[j][3] /\ log[k][4] = log[j][4]}}

\* C27 as stated: a metric that reaches itself never returns a value and
\* never raises a typed error of the engine, the call stack is exhausted;
\* a metric that reaches no cycle terminates with a value or an error.
C27_CycleAlwaysExhaustsTheStack ==
  IsEvaluateMetric(last) =>
    /\ CanReachItself(last.metricName) =>
         (~last.res.ok /\ last.res.err = StackExhausted)
    /\ Acyclic(last.metricName) => last.res.err # StackExhausted

\* C27 as amended: a metric that reaches itself never returns a value and
\* is never cached; the evaluation exhausts the call stack unless a
\* reference evaluated before the cycle closes does not resolve, and then
\* the typed error of that reference is raised.  When every reference
\* reached resolves the call stack is exhausted.  A metric that reaches no
\* cycle terminates with a value or an error.
C27_CycleNeverReturns ==
  IsEvaluateMetric(last) =>
    /\ CanReachItself(last.metricName) =>
         /\ ~last.res.ok
         /\ last.res.val = Undefined
         /\ cacheKey(last.metricName, last.context) \notin DOMAIN last.res.cache
         /\ last.res.err # StackExhausted =>
              (/\ last.res.err = Unresolved(FailedIn(last.res))
               /\ last.res.err # NoError)
         /\ (\A m \in ReachedFrom(last.metricName) : Unresolved(m) = NoError) =>
              last.res.err = StackExhausted
    /\ Acyclic(last.metricName) => last.res.err # StackExhausted

\* a cycle run until the stack is exhausted: a pair was entered again while
\* its first evaluation was not complete, with a dependency already cached
C27_Witness ==
  /\ IsEvaluateMetric(last)
  /\ last.metricName = "loopPct"
  /\ last.res.err = StackExhausted
  /\ Reentered(last.res.log) # {}
  /\ DOMAIN last.res.cache # DOMAIN last.before

(***************************************************************************)
(* C28                                                                     *)
(***************************************************************************)
\* the depth the evaluation was at when it failed
FailedAtDepth(res) == res.log[Len(res.log)][2]

\* the evaluation entered last at a depth
LastCallAt(log, depth) == Events(log, "call", depth)[Len(Events(log, "call", depth))]

\* the (metric, context) pairs whose evaluation was under way when the call
\* failed: the failing metric and the metrics above it on the recursion
\* path.  A frame the exhausted stack had no room for is not among them.
FailingPath(res) ==
  {<<LastCallAt(res.log, d)[3], LastCallAt(res.log, d)[4]>> :
     d \in 1..(IF res.err = StackExhausted THEN FailedAtDepth(res) - 1 ELSE FailedAtDepth(res))}

\* the (metric, context) pairs whose aggregation, expression or combinator
\* ran to its end
Completed(log) == {<<log[i][3], log[i][4]>> : i \in {j \in 1..Len(log) : log[j][1] = "compute"}}

\* C28: when evaluateMetric fails, the cache holds no entry for the failing
\* metric nor for any metric above it on the recursion path, every entry it
\* held before the call and every dependency evaluated to its end before
\* the failure is in it, and the same call made again through the same
\* cache fails with the same error and returns no value.
C28_FailureCachesNothingOnThePath ==
  /\ (IsEvaluateMetric(last) /\ ~last.res.ok) =>
       /\ \A p \in FailingPath(last.res) : cacheKey(p[1], p[2]) \notin DOMAIN last.res.cache
       /\ \A p \in Completed(last.res.log) : cacheKey(p[1], p[2]) \in DOMAIN last.res.cache
       /\ KeepsEntries(last.before, last.res.cache)
  /\ (/\ IsEvaluateMetric(prev) /\ prev.held /\ IsEvaluateMetric(last) /\ last.held
      /\ prev.metricName = last.metricName /\ prev.context = last.context
      /\ ~prev.res.ok) =>
       /\ ~last.res.ok
       /\ last.res.val = Undefined
       /\ last.res.err = prev.res.err

C28_Witness ==
  /\ IsEvaluateMetric(prev) /\ prev.held /\ IsEvaluateMetric(last) /\ last.held
  /\ prev.metricName = "salesVsGhost" /\ last.metricName = "salesVsGhost"
  /\ prev.context = last.context
  /\ Completed(prev.res.log) # {}
  /\ Cardinality(FailingPath(prev.res)) = 2
  /\ last.res.err = <<"Unknown metric", "ghost">>
  /\ \E i \in 1..Len(last.res.log) :
       last.res.log[i][1] = "hit" /\ last.res.log[i][3] = "totalSalesAmount"

(***************************************************************************)
(* C29 (SpecPure)                                                          *)
(***************************************************************************)
\* the row passes the year and month filters of the context
Selects(row, context) == applyContextToFact(<<row>>, context, <<"year", "month">>) # <<>>

\* C29: for every context C, one with a range on month included, the
\* context ytd(ytd(C)) selects the rows that ytd(C) selects.
C29_YtdIdempotentOnRows ==
  pf.fn = "ytd" =>
    \A row \in PureRows : Selects(row, ytd(pf.result)) <=> Selects(row, pf.result)

(***************************************************************************)
(* C30 (SpecApp)                                                           *)
(***************************************************************************)
\* the result state: what ResultsPanel is given, and isRunning
ResultState(a) == <<a.resultRows, a.durationMs, a.error, a.lastRequest, a.isRunning>>

\* the result state is that of a run of lastRequest with the active
\* overrides
ConsistentWithLastRun(a) ==
  LET run == runPlaygroundQuery(a.lastRequest, a.activeOverrides, a.durationMs)
  IN /\ ~a.isRunning
     /\ IF run.ok
        THEN /\ a.error = NoError
             /\ a.resultRows = run.rows
             /\ a.durationMs \in Durations
        ELSE /\ a.resultRows = <<>>
             /\ a.durationMs = Null
             /\ a.error = run.message
             /\ a.error # NoError

\* C30: after the mount effect and after every run, apply-overrides, reset,
\* editor or query-builder event, the result state is that of the last
\* run: rows empty, durationMs null and error its message if it threw,
\* error undefined and rows and durationMs its result if it succeeded,
\* lastRequest its request and isRunning false; the last run is the one the
\* handler made, of the snapshot of the query state with the overrides that
\* are active after it; and an apply-overrides event while the editor text has a parse
\* error leaves the result state and the active overrides as they were.
C30_ResultStateMatchesLastRun ==
  [][/\ ConsistentWithLastRun(app')
     /\ app'.event \in {"run", "apply", "reset"} =>
          \/ app'.lastRequest = app.queryState
          \/ app'.event = "apply" /\ validateMetricOverrides(app.editorValue).error # NoParseError
     /\ (app'.event = "apply" /\ validateMetricOverrides(app.editorValue).error # NoParseError) =>
          /\ ResultState(app') = ResultState(app)
          /\ app'.activeOverrides = app.activeOverrides]_vars

C30_Witness ==
  /\ app.event = "apply"
  /\ app.error = <<"Unknown fact table", "returns">>
  /\ app.resultRows = <<>>
  /\ app.durationMs = Null
  /\ app.lastRequest # defaultQueryRequest
  /\ ~app.isRunning

====
